---- MODULE Spec2Model ----
(***************************************************************************)
(* A model of the cheshire terminal renderers (waffle, pie, matrix heatmap, *)
(* map) and of the refresh loop that drives them.                          *)
(*                                                                         *)
(* Floating point values are modelled by exact rationals <<n, d>> (d > 0,  *)
(* lowest terms); int() is truncation toward zero and round() is Python's  *)
(* round-half-to-even.  Angles are kept in units of a full turn (2*pi).    *)
(***************************************************************************)
EXTENDS Integers, Sequences, FiniteSets, TLC

VARIABLES call, ret, locals, loop

vars == <<call, ret, locals, loop>>

(***************************************************************************)
(* Bounds of the model.                                                    *)
(***************************************************************************)
MaxLen == 3
MaxVal == 2
MaxCells == 4
MaxN == 17
MaxCustom == 1
MaxRows == 2
MaxKey == 1
MaxTicks == 3
MaxInterval == 1

(***************************************************************************)
(* Generic helpers.                                                        *)
(***************************************************************************)
Max(a, b) == IF a >= b THEN a ELSE b
Min(a, b) == IF a <= b THEN a ELSE b
Abs(a) == IF a < 0 THEN -a ELSE a

SetMin(S) == CHOOSE a \in S : \A b \in S : a <= b
SetMax(S) == CHOOSE a \in S : \A b \in S : a >= b

(* f itself, as an explicit table of its values: later applications of f
   look the value up instead of computing it again *)
Force(f) == IF f = <<>> THEN <<>> ELSE f

SeqsUpTo(S, n) == UNION {[1..k -> S] : k \in 0..n}

RECURSIVE SumSeq(_)
SumSeq(s) == IF s = <<>> THEN 0 ELSE Head(s) + SumSeq(Tail(s))

RECURSIVE Gcd(_, _)
Gcd(a, b) == IF b = 0 THEN a ELSE Gcd(b, a % b)

(* Exact rationals.  Products are formed after cross-cancelling, so that an
   intermediate value is never larger than the result needs. *)
Lcm(a, b) == (a \div Gcd(a, b)) * b

Q(n, d) ==
    LET s == IF d < 0 THEN -1 ELSE 1
        g == Gcd(Abs(n), Abs(d))
    IN  <<(s * n) \div g, (s * d) \div g>>
QInt(n) == <<n, 1>>
QAdd(a, b) ==
    IF a[1] = 0 THEN b
    ELSE IF b[1] = 0 THEN a
    ELSE LET l == Lcm(a[2], b[2])
         IN  Q(a[1] * (l \div a[2]) + b[1] * (l \div b[2]), l)
QNeg(a) == <<-a[1], a[2]>>
QSub(a, b) == QAdd(a, QNeg(b))
QMul(a, b) ==
    LET g1 == Gcd(Abs(a[1]), b[2])
        g2 == Gcd(Abs(b[1]), a[2])
    IN  <<(a[1] \div g1) * (b[1] \div g2), (a[2] \div g2) * (b[2] \div g1)>>
QInv(a) == IF a[1] < 0 THEN <<-a[2], -a[1]>> ELSE <<a[2], a[1]>>
QDiv(a, b) == QMul(a, QInv(b))
QLt(a, b) ==
    LET l == Lcm(a[2], b[2])
    IN  a[1] * (l \div a[2]) < b[1] * (l \div b[2])
QLe(a, b) == ~QLt(b, a)
QAbs(a) == <<Abs(a[1]), a[2]>>
QMax(a, b) == IF QLt(a, b) THEN b ELSE a
QMin(a, b) == IF QLt(b, a) THEN b ELSE a
QFloor(a) == a[1] \div a[2]
(* Python int(x): truncation toward zero. *)
QTrunc(a) == IF a[1] >= 0 THEN a[1] \div a[2] ELSE -((-a[1]) \div a[2])
(* Python round(x): nearest integer, ties to the even one. *)
QRound(a) ==
    LET f == QFloor(a)
        twice == 2 * (a[1] - f * a[2])
    IN  IF twice < a[2] THEN f
        ELSE IF twice > a[2] THEN f + 1
        ELSE IF f % 2 = 0 THEN f ELSE f + 1

(***************************************************************************)
(* Outcomes of a call: a returned string or a raised exception.  A chart   *)
(* string is abstracted to "<chart>"; its content is kept in locals.       *)
(***************************************************************************)
NoData == "No data to display"
NoDataAllZero == "No data to display (all values are zero)"
ChartText == "<chart>"

Return(text) == [status |-> "return", text |-> text]
Raise(exc) == [status |-> "raise", text |-> exc]
(* "not values": the list is empty.  NoValuesNever drops the test. *)
NoValuesNever(values) == FALSE
NoValues(values) == values = <<>>

NoCall == [fn |-> "none"]
NoRet == [status |-> "none", text |-> ""]
NoLocals == [fn |-> "none"]

(***************************************************************************)
(* Colour palettes: waffle_chart.generate_colors, pie_chart.generate_colors*)
(***************************************************************************)
WafflePalette ==
    << <<26, 188, 156>>, <<52, 152, 219>>, <<155, 89, 182>>, <<231, 76, 60>>,
       <<230, 126, 34>>, <<241, 196, 15>>, <<46, 204, 113>>, <<149, 165, 166>>,
       <<52, 73, 94>>, <<192, 57, 43>>, <<142, 68, 173>>, <<39, 174, 96>>,
       <<243, 156, 18>>, <<211, 84, 0>>, <<41, 128, 185>>, <<127, 140, 141>> >>

PiePalette ==
    << <<26, 188, 156>>, <<52, 152, 219>>, <<155, 89, 182>>, <<231, 76, 60>>,
       <<230, 126, 34>>, <<241, 196, 15>>, <<46, 204, 113>>, <<149, 165, 166>>,
       <<52, 73, 94>>, <<192, 57, 43>> >>

(* A custom colour list of length k (the colours themselves do not matter). *)
CustomColors(k) == [i \in 1..k |-> <<i, i, i>>]

Colors(list) == [status |-> "return", colors |-> list]
ColorsRaise(exc) == [status |-> "raise", colors |-> <<>>, exc |-> exc]

(* palette[:n] if n <= len(palette) else palette * (n // len(palette) + 1)[:n]
   The slice binds to the parenthesised integer, so the else branch
   subscripts an int: TypeError. *)
DistinctColors(palette, n) ==
    IF n <= Len(palette)
    THEN Colors(SubSeq(palette, 1, n))
    ELSE ColorsRaise("TypeError")

(* mutant: past yellow the green channel rises again instead of falling *)
GreenRising(t) ==
    IF QLe(t, <<1, 2>>)
    THEN <<QTrunc(QMul(QMul(t, QInt(2)), QInt(255))), 255, 0>>
    ELSE <<255, QTrunc(QMul(QMul(QSub(t, <<1, 2>>), QInt(2)), QInt(255))), 0>>

(* green -> yellow -> red for t = i / m in [0, 1] *)
GreenYellowRed(t) ==
    IF QLe(t, <<1, 2>>)
    THEN <<QTrunc(QMul(QMul(t, QInt(2)), QInt(255))), 255, 0>>
    ELSE <<255,
           QTrunc(QMul(QSub(QInt(1), QMul(QSub(t, <<1, 2>>), QInt(2))), QInt(255))),
           0>>

WaffleGradientColors(n) ==
    Colors([k \in 1..n |-> GreenYellowRed(Q(k - 1, Max(1, n - 1)))])

WaffleMonochromeColors(n) ==
    Colors([k \in 1..n |->
        LET intensity == QAdd(<<3, 10>>, QMul(<<7, 10>>, Q(k - 1, Max(1, n - 1))))
        IN  <<QTrunc(QMul(QInt(52), intensity)),
              QTrunc(QMul(QInt(152), intensity)),
              QTrunc(QMul(QInt(219), intensity))>>])

waffle_generate_colors(n, scheme, custom_colors) ==
    IF custom_colors # <<>> /\ Len(custom_colors) >= n
    THEN Colors(SubSeq(custom_colors, 1, n))
    ELSE IF scheme = "distinct" THEN DistinctColors(WafflePalette, n)
    ELSE IF scheme = "gradient" THEN WaffleGradientColors(n)
    ELSE IF scheme = "monochrome" THEN WaffleMonochromeColors(n)
    ELSE DistinctColors(WafflePalette, n)

hsv_to_rgb(h, s, v) ==
    LET i0 == QTrunc(QMul(h, QInt(6)))
        f == QSub(QMul(h, QInt(6)), QInt(i0))
        p == QMul(v, QSub(QInt(1), s))
        q == QMul(v, QSub(QInt(1), QMul(f, s)))
        t == QMul(v, QSub(QInt(1), QMul(QSub(QInt(1), f), s)))
        i == i0 % 6
    IN  IF i = 0 THEN <<v, t, p>>
        ELSE IF i = 1 THEN <<q, v, p>>
        ELSE IF i = 2 THEN <<p, v, t>>
        ELSE IF i = 3 THEN <<p, q, v>>
        ELSE IF i = 4 THEN <<t, p, v>>
        ELSE <<v, p, q>>

PieHsvColors(n, s, v) ==
    Colors([k \in 1..n |->
        LET rgb == hsv_to_rgb(Q(k - 1, n), s, v)
        IN  <<QTrunc(QMul(rgb[1], QInt(255))),
              QTrunc(QMul(rgb[2], QInt(255))),
              QTrunc(QMul(rgb[3], QInt(255)))>>])

pie_generate_colors(n, scheme, custom_colors) ==
    IF custom_colors # <<>> /\ Len(custom_colors) >= n
    THEN Colors(SubSeq(custom_colors, 1, n))
    ELSE IF scheme = "distinct" THEN DistinctColors(PiePalette, n)
    ELSE IF scheme = "gradient" THEN PieHsvColors(n, QInt(1), QInt(1))
    ELSE IF scheme = "pastel" THEN PieHsvColors(n, <<1, 2>>, <<19, 20>>)
    ELSE DistinctColors(PiePalette, n)

(***************************************************************************)
(* waffle_chart.render_waffle_chart                                        *)
(***************************************************************************)
(* mutant: negative values are not clamped *)
NumericValuesUnclamped(values) == values

(* numeric_values: every value clamped to >= 0 *)
NumericValues(values) == [i \in 1..Len(values) |-> Max(0, values[i])]

(* cells = round(value / total * total_cells) *)
RoundedCells(value, total, total_cells) ==
    QRound(QMul(Q(value, total), QInt(total_cells)))

(* The allocation loop: every value but the last is rounded, the last one
   gets remaining_cells. *)
RECURSIVE CellCountsFrom(_, _, _, _, _)
CellCountsFrom(values, total, total_cells, i, remaining_cells) ==
    IF i > Len(values) THEN <<>>
    ELSE IF i = Len(values) THEN <<remaining_cells>>
    ELSE LET cells == RoundedCells(values[i], total, total_cells)
         IN  <<cells>> \o CellCountsFrom(values, total, total_cells, i + 1,
                                         remaining_cells - cells)

(* mutant: the last value is rounded like the others *)
CellCountsAllRounded(values, total, total_cells) ==
    [i \in 1..Len(values) |-> RoundedCells(values[i], total, total_cells)]

CellCounts(values, total, total_cells) ==
    CellCountsFrom(values, total, total_cells, 1, total_cells)

(* cells.extend([i] * count) for every category, then padding with -1 *)
RECURSIVE WaffleCellsFrom(_, _)
WaffleCellsFrom(cell_counts, i) ==
    IF i > Len(cell_counts) THEN <<>>
    ELSE [k \in 1..Max(0, cell_counts[i]) |-> i - 1]
         \o WaffleCellsFrom(cell_counts, i + 1)

WaffleCells(cell_counts, total_cells) ==
    LET filled == WaffleCellsFrom(cell_counts, 1)
    IN  filled \o [k \in 1..Max(0, total_cells - Len(filled)) |-> -1]

render_waffle_chart(values, total_cells, scheme) ==
    IF NoValues(values)
    THEN [ret |-> Return(NoData), locals |-> [fn |-> "waffle", stage |-> "empty"]]
    ELSE
    LET numeric == NumericValues(values)
        total == SumSeq(numeric)
    IN  IF total = 0
        THEN [ret |-> Return(NoDataAllZero),
              locals |-> [fn |-> "waffle", stage |-> "zero"]]
        ELSE
        LET cell_counts == CellCounts(numeric, total, total_cells)
            colors == waffle_generate_colors(Len(numeric), scheme, <<>>)
        IN  IF colors.status = "raise"
            THEN [ret |-> Raise(colors.exc),
                  locals |-> [fn |-> "waffle", stage |-> "colors"]]
            ELSE [ret |-> Return(ChartText),
                  locals |-> [fn |-> "waffle", stage |-> "chart",
                              values |-> numeric, total |-> total,
                              cell_counts |-> cell_counts,
                              colors |-> colors.colors,
                              cells |-> WaffleCells(cell_counts, total_cells)]]

(***************************************************************************)
(* pie_chart.render_pie_chart: values, angles and colours.  An angle is a  *)
(* rational number of full turns: -pi/2 is -1/4, 2*pi is 1.                *)
(***************************************************************************)
StartAngle == <<-1, 4>>

(* for value in values: angle = value / total * 2pi;
       angles.append((current_angle, current_angle + angle));
       current_angle += angle *)
RECURSIVE AnglesFrom(_, _, _, _)
AnglesFrom(values, total, i, current_angle) ==
    IF i > Len(values) THEN <<>>
    ELSE LET angle == Q(values[i], total)
         IN  << <<current_angle, QAdd(current_angle, angle)>> >>
             \o AnglesFrom(values, total, i + 1, QAdd(current_angle, angle))

(* mutant: current_angle is not advanced *)
AnglesNotAdvanced(values, total) ==
    [i \in 1..Len(values) |->
        <<StartAngle, QAdd(StartAngle, Q(values[i], total))>>]

Angles(values, total) == AnglesFrom(values, total, 1, StartAngle)

render_pie_chart(values, scheme) ==
    IF NoValues(values)
    THEN [ret |-> Return(NoData), locals |-> [fn |-> "pie", stage |-> "empty"]]
    ELSE
    LET numeric == NumericValues(values)
        total == SumSeq(numeric)
    IN  IF total = 0
        THEN [ret |-> Return(NoDataAllZero),
              locals |-> [fn |-> "pie", stage |-> "zero"]]
        ELSE
        LET angles == Angles(numeric, total)
            colors == pie_generate_colors(Len(numeric), scheme, <<>>)
        IN  IF colors.status = "raise"
            THEN [ret |-> Raise(colors.exc),
                  locals |-> [fn |-> "pie", stage |-> "colors"]]
            ELSE [ret |-> Return(ChartText),
                  locals |-> [fn |-> "pie", stage |-> "chart",
                              values |-> numeric, total |-> total,
                              angles |-> angles, colors |-> colors.colors]]

(***************************************************************************)
(* matrix_heatmap.render_matrix_heatmap.  A key is a natural number: 0 is  *)
(* None, k > 0 is the k-th string in str() order.                          *)
(***************************************************************************)
NoneKey == 0
max_cols == 20
max_rows == 20

(* zip(x_values, y_values) stops at the shorter list *)
ZipLen(x_values, y_values) == Min(Len(x_values), Len(y_values))

(* value = cell_values[i] if cell_values and i < len(cell_values) else 1 *)
CellValue(cell_values, i) ==
    IF cell_values # <<>> /\ i <= Len(cell_values) THEN cell_values[i] ELSE 1

(* pivot_data[y][x], a function on the (y, x) pairs seen so far *)
RECURSIVE PivotFrom(_, _, _, _, _)
PivotFrom(x_values, y_values, cell_values, i, pivot) ==
    IF i > ZipLen(x_values, y_values) THEN pivot
    ELSE LET key == <<y_values[i], x_values[i]>>
             value == CellValue(cell_values, i)
             next == IF key \in DOMAIN pivot
                     THEN [pivot EXCEPT ![key] = @ + value]
                     ELSE [k \in DOMAIN pivot \cup {key} |->
                              IF k = key THEN value ELSE pivot[k]]
         IN  PivotFrom(x_values, y_values, cell_values, i + 1, next)

EmptyPivot == [k \in {} |-> 0]

(* mutant: a colliding row overwrites the cell instead of adding to it *)
RECURSIVE PivotOverwriteFrom(_, _, _, _, _)
PivotOverwriteFrom(x_values, y_values, cell_values, i, pivot) ==
    IF i > ZipLen(x_values, y_values) THEN pivot
    ELSE LET key == <<y_values[i], x_values[i]>>
             value == CellValue(cell_values, i)
         IN  PivotOverwriteFrom(x_values, y_values, cell_values, i + 1,
                 [k \in DOMAIN pivot \cup {key} |->
                     IF k = key THEN value ELSE pivot[k]])

PivotDataOverwriting(x_values, y_values, cell_values) ==
    PivotOverwriteFrom(x_values, y_values, cell_values, 1, EmptyPivot)

PivotData(x_values, y_values, cell_values) ==
    PivotFrom(x_values, y_values, cell_values, 1, EmptyPivot)

(* pivot_data.get(y, {}).get(x, 0) *)
PivotGet(pivot, y, x) == IF <<y, x>> \in DOMAIN pivot THEN pivot[<<y, x>>] ELSE 0

(* sort key (k is None, str(k)): None goes last *)
KeyBefore(a, b) ==
    IF a = NoneKey THEN FALSE ELSE IF b = NoneKey THEN TRUE ELSE a < b

(* sorted(list(set(values)), key = (v is None, str(v))) *)
RECURSIVE SortedKeys(_)
SortedKeys(S) ==
    IF S = {} THEN <<>>
    ELSE LET first == CHOOSE a \in S : \A b \in S \ {a} : KeyBefore(a, b)
         IN  <<first>> \o SortedKeys(S \ {first})

SeqRange(s) == {s[i] : i \in 1..Len(s)}

(* mutant: the first n keys in their sorted order, whatever their totals *)
FirstKeys(keys, totals, n) == SubSeq(keys, 1, Min(n, Len(keys)))

(* sorted(keys, key = total, reverse = True)[:n]: a stable sort, so keys of
   equal total keep their order *)
RECURSIVE TopByTotal(_, _, _)
TopByTotal(keys, totals, n) ==
    IF n = 0 \/ keys = <<>> THEN <<>>
    ELSE LET best == CHOOSE i \in 1..Len(keys) :
                        /\ \A j \in 1..Len(keys) : totals[keys[j]] <= totals[keys[i]]
                        /\ \A j \in 1..(i - 1) : totals[keys[j]] < totals[keys[i]]
             rest == [j \in 1..(Len(keys) - 1) |->
                         IF j < best THEN keys[j] ELSE keys[j + 1]]
         IN  <<keys[best]>> \o TopByTotal(rest, totals, n - 1)

RECURSIVE SumOver(_, _)
SumOver(S, f) ==
    IF S = {} THEN 0
    ELSE LET e == CHOOSE e \in S : TRUE IN f[e] + SumOver(S \ {e}, f)

(* unique_x after the top-20 truncation *)
UniqueX(x_values, pivot, unique_y0) ==
    LET unique_x0 == SortedKeys(SeqRange(x_values))
        x_totals == [x \in SeqRange(unique_x0) |->
                        SumOver(SeqRange(unique_y0),
                                [y \in SeqRange(unique_y0) |-> PivotGet(pivot, y, x)])]
    IN  IF Len(unique_x0) > max_cols
        THEN TopByTotal(unique_x0, x_totals, max_cols)
        ELSE unique_x0

(* unique_y after the top-20 truncation: the row total is the sum of the
   whole pivot row *)
UniqueY(y_values, pivot) ==
    LET unique_y0 == SortedKeys(SeqRange(y_values))
        row(y) == {k \in DOMAIN pivot : k[1] = y}
        y_totals == [y \in SeqRange(unique_y0) |->
                        SumOver(row(y), [k \in row(y) |-> pivot[k]])]
    IN  IF Len(unique_y0) > max_rows
        THEN TopByTotal(unique_y0, y_totals, max_rows)
        ELSE unique_y0

(* normalized = (value - min) / (max - min) if max > min else 0.5 *)
Normalized(value, min_val, max_val) ==
    IF max_val > min_val THEN Q(value - min_val, max_val - min_val) ELSE <<1, 2>>

BlueWhiteRed(t) ==
    IF QLe(t, <<1, 2>>)
    THEN LET c == QTrunc(QMul(QMul(t, QInt(2)), QInt(255))) IN <<c, c, 255>>
    ELSE LET c == QTrunc(QMul(QSub(QInt(1), QMul(QSub(t, <<1, 2>>), QInt(2))),
                              QInt(255)))
         IN  <<255, c, c>>

CoolWarm(t) ==
    IF QLe(t, <<1, 2>>)
    THEN <<QTrunc(QMul(QMul(t, QInt(2)), QInt(255))),
           QTrunc(QMul(QMul(t, QInt(2)), QInt(220))),
           255 - QTrunc(QMul(QMul(t, QInt(2)), QInt(55)))>>
    ELSE <<255,
           220 - QTrunc(QMul(QMul(QSub(t, <<1, 2>>), QInt(2)), QInt(140))),
           200 - QTrunc(QMul(QMul(QSub(t, <<1, 2>>), QInt(2)), QInt(200)))>>

MatrixColor(color_scheme, t) ==
    IF color_scheme = "green_yellow_red" THEN GreenYellowRed(t)
    ELSE IF color_scheme = "blue_white_red" THEN BlueWhiteRed(t)
    ELSE CoolWarm(t)

(* One displayed cell: coloured when its value is > 0, blank otherwise. *)
MatrixCell(value, min_val, max_val, color_scheme) ==
    IF value > 0
    THEN LET t == Normalized(value, min_val, max_val)
         IN  [colored |-> TRUE, value |-> value, normalized |-> t,
              rgb |-> MatrixColor(color_scheme, t)]
    ELSE [colored |-> FALSE, value |-> value, normalized |-> <<0, 1>>,
          rgb |-> <<0, 0, 0>>]

render_matrix_heatmap(x_values, y_values, cell_values, color_scheme) ==
    IF x_values = <<>> \/ y_values = <<>>
    THEN [ret |-> Return(NoData), locals |-> [fn |-> "matrix", stage |-> "empty"]]
    ELSE
    LET pivot == PivotData(x_values, y_values, cell_values)
        unique_y0 == SortedKeys(SeqRange(y_values))
        unique_x == UniqueX(x_values, pivot, unique_y0)
        unique_y == UniqueY(y_values, pivot)
        shown == SeqRange(unique_y) \X SeqRange(unique_x)
        positive == {v \in {PivotGet(pivot, k[1], k[2]) : k \in shown} : v > 0}
    IN  IF positive = {}
        THEN [ret |-> Return(NoData),
              locals |-> [fn |-> "matrix", stage |-> "zero", pivot_data |-> pivot]]
        ELSE
        LET min_val == SetMin(positive)
            max_val == SetMax(positive)
        IN  [ret |-> Return(ChartText),
             locals |-> [fn |-> "matrix", stage |-> "chart",
                         pivot_data |-> pivot,
                         unique_x |-> unique_x, unique_y |-> unique_y,
                         min_val |-> min_val, max_val |-> max_val,
                         cells |-> [k \in shown |->
                                       MatrixCell(PivotGet(pivot, k[1], k[2]),
                                                  min_val, max_val, color_scheme)]]]

(***************************************************************************)
(* map_renderer.MapRenderer: the viewport.  Latitudes and longitudes are   *)
(* whole degrees; everything computed from them is an exact rational.      *)
(***************************************************************************)
(* __init__: self.width = width - 0, self.height = height - 1 *)
SelfWidth(width) == width - 0
SelfHeight(height) == height - 1

SeqMin(xs) == SetMin({xs[i] : i \in 1..Len(xs)})
SeqMax(xs) == SetMax({xs[i] : i \in 1..Len(xs)})

(* sum(xs) / len(xs) *)
Mean(xs) == Q(SumSeq(xs), Len(xs))

(* The squared distance of point i from the centroid,
     (lat - center_lat)^2 + ((lon - center_lon) * cos(radians(center_lat)))^2,
   scaled by the same factor 10000 * N^4 for every point, with cos(x)^2
   taken as 1 - 3 * x^2 / 10000 for x in degrees (its value within 2e-5 for
   the latitudes of the model, which stay below 10 degrees).  The scaled
   value is 10000 * whole - part; it is kept as <<hi, lo>>, standing for
   10000 * hi + lo with 0 <= lo < 10000, so that a crowd of points does not
   take it beyond the integers of the checker. *)
DistKey(lats, lons, i) ==
    LET n == Len(lats)
        s_lat == SumSeq(lats)
        s_lon == SumSeq(lons)
        d_lat == n * lats[i] - s_lat
        d_lon == n * lons[i] - s_lon
        whole == (d_lat * d_lat + d_lon * d_lon) * n * n
        part == 3 * s_lat * s_lat * d_lon * d_lon
    IN  <<whole - ((part + 9999) \div 10000), (10000 - (part % 10000)) % 10000>>

(* the order of the scaled distances *)
DistLess(a, b) == a[1] < b[1] \/ (a[1] = b[1] /\ a[2] < b[2])

(* distances: the tuple (dist, lat, lon) of every point *)
Distances(lats, lons) ==
    Force([i \in 1..Len(lats) |-> <<DistKey(lats, lons, i), lats[i], lons[i]>>])

(* the order of the tuples (dist, lat, lon) *)
DistBefore(a, b) ==
    \/ DistLess(a[1], b[1])
    \/ a[1] = b[1] /\ a[2] < b[2]
    \/ a[1] = b[1] /\ a[2] = b[2] /\ a[3] < b[3]

(* distances.sort(): the indices of the points, nearest first *)
RECURSIVE SortDistances(_, _)
SortDistances(distances, left) ==
    IF left = {} THEN <<>>
    ELSE LET first == CHOOSE i \in left :
                          /\ \A j \in left : ~DistBefore(distances[j], distances[i])
                          /\ \A j \in left :
                                j < i => DistBefore(distances[i], distances[j])
         IN  <<first>> \o SortDistances(distances, left \ {first})

SortByDistance(lats, lons) == SortDistances(Distances(lats, lons), 1..Len(lats))

(* int(len(distances) * target_coverage) *)
TargetCount(n, target_coverage) == QTrunc(QMul(QInt(n), target_coverage))

grid_size == 40

(* (max - min) / grid_size if max > min else 1 *)
GridStep(lo, hi) == IF hi > lo THEN Q(hi - lo, grid_size) ELSE <<1, 1>>

(* min(max(0, int((v - min) / step)), grid_size - 1) *)
GridIdx(v, lo, step) ==
    Min(Max(0, QTrunc(QDiv(QInt(v - lo), step))), grid_size - 1)

(* key = (lat_idx, lon_idx) of every point *)
GridKeys(lats, lons, min_lat, max_lat, min_lon, max_lon) ==
    Force([i \in 1..Len(lats) |->
              <<GridIdx(lats[i], min_lat, GridStep(min_lat, max_lat)),
                GridIdx(lons[i], min_lon, GridStep(min_lon, max_lon))>>])

(* grid_counts[key] of the key of every point *)
GridCounts(keys) ==
    Force([i \in 1..Len(keys) |-> Cardinality({j \in 1..Len(keys) : keys[j] = keys[i]})])

(* max() over the dict keeps the first cell, in order of first appearance,
   with the highest count: the cell of the first point with that count *)
FirstFullest(counts) ==
    CHOOSE i \in 1..Len(counts) :
        /\ \A j \in 1..Len(counts) : counts[j] <= counts[i]
        /\ \A j \in 1..(i - 1) : counts[j] < counts[i]

(* The index of a point of the fullest grid cell. *)
PeakPoint(lats, lons) ==
    FirstFullest(GridCounts(GridKeys(lats, lons, SeqMin(lats), SeqMax(lats),
                                     SeqMin(lons), SeqMax(lons))))

(* min + (idx + 0.5) * step *)
PeakCoord(v, lo, hi) ==
    LET step == GridStep(lo, hi)
    IN  QAdd(QInt(lo), QMul(QAdd(QInt(GridIdx(v, lo, step)), <<1, 2>>), step))

(* mutant: the core centre and the peak weigh the same *)
BlendEven(core_center, peak) ==
    QAdd(QMul(<<1, 2>>, core_center), QMul(<<1, 2>>, peak))

(* 0.9 * core_center + 0.1 * peak *)
Blend(core_center, peak) ==
    QAdd(QMul(<<9, 10>>, core_center), QMul(<<1, 10>>, peak))

(* sorted(abs(v - center) for v in vs)[idx], idx counted from 0 *)
RECURSIVE SortQ(_)
SortQ(qs) ==
    IF qs = <<>> THEN <<>>
    ELSE LET first == CHOOSE i \in 1..Len(qs) : \A j \in 1..Len(qs) : QLe(qs[i], qs[j])
         IN  <<qs[first]>>
             \o SortQ(Force([j \in 1..(Len(qs) - 1) |->
                                IF j < first THEN qs[j] ELSE qs[j + 1]]))

AbsDists(vs, center) ==
    Force([i \in 1..Len(vs) |-> QAbs(QSub(QInt(vs[i]), center))])

min_range == <<1, 1000>>
lat_padding_factor == <<133, 100>>
lon_padding_factor == <<9, 5>>

(* max(0.001, range) *)
EnsureMinimum(range) == QMax(min_range, range)

(* sum(core) / len(core) if core else the centroid of all points *)
CoreCenter(vs, core) ==
    IF core # <<>> THEN Mean([k \in 1..Len(core) |-> vs[core[k]]]) ELSE Mean(vs)

(* sorted(abs(v - final_center) for v in vs)[percentile_idx] *)
PercentileDist(vs, final_center, percentile_idx) ==
    SortQ(AbsDists(vs, final_center))[percentile_idx + 1]

(* the aspect ratio correction of the latitude range *)
AspectCorrected(lat_range, aspect_ratio) ==
    IF QLt(<<1, 1>>, aspect_ratio) THEN QDiv(lat_range, aspect_ratio) ELSE lat_range

(* lines 664-688: the ranges around the final centre *)
DensityWindow(lats, lons, aspect_ratio, percentile_idx, final_center_lat, final_center_lon) ==
    [center_lat |-> final_center_lat,
     center_lon |-> final_center_lon,
     lat_range |->
        QMul(EnsureMinimum(AspectCorrected(
                 QMul(QInt(2), PercentileDist(lats, final_center_lat, percentile_idx)),
                 aspect_ratio)),
             lat_padding_factor),
     lon_range |->
        QMul(EnsureMinimum(
                 QMul(QInt(2), PercentileDist(lons, final_center_lon, percentile_idx))),
             lon_padding_factor)]

(* lines 618-662: the centre of the core points, blended with the centre
   of the fullest grid cell *)
DensityCenter(lats, lons, aspect_ratio, percentile_idx, core, peak) ==
    DensityWindow(lats, lons, aspect_ratio, percentile_idx,
        Blend(CoreCenter(lats, core), PeakCoord(lats[peak], SeqMin(lats), SeqMax(lats))),
        Blend(CoreCenter(lons, core), PeakCoord(lons[peak], SeqMin(lons), SeqMax(lons))))

(* _find_density_center: (center_lat, center_lon, lat_range, lon_range) *)
find_density_center(lats, lons, aspect_ratio, target_coverage) ==
    DensityCenter(lats, lons, aspect_ratio,
        Min(TargetCount(Len(lats), target_coverage), Len(lats) - 1),
        SubSeq(SortByDistance(lats, lons), 1,
               TargetCount(Len(lats), target_coverage)),
        PeakPoint(lats, lons))

(* range * 0.1, without the "or 1" *)
PaddingOrZero(range) == QMul(range, <<1, 10>>)

(* range * 0.1 or 1 *)
PaddingOrOne(range) ==
    LET padding == QMul(range, <<1, 10>>)
    IN  IF padding = <<0, 1>> THEN <<1, 1>> ELSE padding

(* lines 109-117: the bounds around the density centre c *)
DensityBounds(c) ==
    [path |-> "density",
     min_lat |-> QSub(c.center_lat, QDiv(c.lat_range, QInt(2))),
     max_lat |-> QAdd(c.center_lat, QDiv(c.lat_range, QInt(2))),
     min_lon |-> QSub(c.center_lon, QDiv(c.lon_range, QInt(2))),
     max_lon |-> QAdd(c.center_lon, QDiv(c.lon_range, QInt(2)))]

(* lat_range * (1 - 1 / aspect_ratio) * 0.5 if aspect_ratio > 1, else no
   reduction *)
LatReduction(lat_range, aspect_ratio) ==
    IF QLt(<<1, 1>>, aspect_ratio)
    THEN QMul(QMul(lat_range, QSub(<<1, 1>>, QInv(aspect_ratio))), <<1, 2>>)
    ELSE <<0, 1>>

(* lines 136-143: the padding around the (reduced) bounds *)
PaddedBounds(min_lat, max_lat, min_lon, max_lon, lon_range) ==
    [path |-> "bounds",
     min_lat |-> QSub(min_lat, PaddingOrOne(QSub(max_lat, min_lat))),
     max_lat |-> QAdd(max_lat, PaddingOrOne(QSub(max_lat, min_lat))),
     min_lon |-> QSub(min_lon, PaddingOrOne(lon_range)),
     max_lon |-> QAdd(max_lon, PaddingOrOne(lon_range))]

(* lines 120-134: the bounds of all points, the latitudes reduced *)
ReducedBounds(min_lat, max_lat, min_lon, max_lon, lat_reduction) ==
    PaddedBounds(QAdd(min_lat, lat_reduction), QSub(max_lat, lat_reduction),
                 min_lon, max_lon, QSub(max_lon, min_lon))

MinMaxBounds(lats, lons, aspect_ratio) ==
    ReducedBounds(QInt(SeqMin(lats)), QInt(SeqMax(lats)),
                  QInt(SeqMin(lons)), QInt(SeqMax(lons)),
                  LatReduction(QInt(SeqMax(lats) - SeqMin(lats)), aspect_ratio))

(* lines 146-147: the scale factors.  A zero span is a ZeroDivisionError;
   a scale of 0 stands for it. *)
WithScales(bounds, lat_span, lon_span, self_width, self_height) ==
    [path |-> bounds.path,
     min_lat |-> bounds.min_lat, max_lat |-> bounds.max_lat,
     min_lon |-> bounds.min_lon, max_lon |-> bounds.max_lon,
     lat_span |-> lat_span, lon_span |-> lon_span,
     lat_scale |-> IF lat_span[1] = 0 THEN <<0, 1>>
                   ELSE QDiv(QInt(self_height - 1), lat_span),
     lon_scale |-> IF lon_span[1] = 0 THEN <<0, 1>>
                   ELSE QDiv(QInt(self_width - 1), lon_span)]

Scaled(bounds, self_width, self_height) ==
    WithScales(bounds, QSub(bounds.max_lat, bounds.min_lat),
               QSub(bounds.max_lon, bounds.min_lon), self_width, self_height)

(* render_map, lines 107-147: the bounds and the scale factors *)
Viewport(lats, lons, self_width, self_height, aspect_ratio, center_on_density) ==
    Scaled(IF center_on_density /\ Len(lats) > 2
           THEN DensityBounds(find_density_center(lats, lons, aspect_ratio, <<9, 10>>))
           ELSE MinMaxBounds(lats, lons, aspect_ratio),
           self_width, self_height)

(***************************************************************************)
(* map_renderer.MapRenderer: the canvas and the plotting modes.  A canvas  *)
(* cell is the string the code stores there: the parameters of its ANSI    *)
(* colour sequence ("\033[" p1 ";" p2 ... "m", none for an uncoloured      *)
(* cell) and the code point of its character.                              *)
(***************************************************************************)
BRAILLE_BASE == 10240
BRAILLE_DOTS == << <<1, 8>>, <<2, 16>>, <<4, 32>>, <<64, 128>> >>
(* ' ', light shade, medium shade, dark shade, full block *)
BLOCK_CHARS == <<32, 9617, 9618, 9619, 9608>>
HALF_BLOCKS == [upper |-> 9600, lower |-> 9604, full |-> 9608]

Cell(color, char) == [color |-> color, char |-> char]
Blank == Cell(<<>>, 32)
CanvasCells(width, height) == (0..(height - 1)) \X (0..(width - 1))

(* the four grids as __init__ and render_map (lines 149-153) fill them *)
ClearCanvases(width, height) ==
    [canvas |-> Force([p \in CanvasCells(width, height) |-> Blank]),
     braille_canvas |-> Force([p \in CanvasCells(width, height) |-> 0]),
     block_canvas |-> Force([p \in CanvasCells(width, height) |->
                               [upper |-> FALSE, lower |-> FALSE]]),
     density_map |-> Force([p \in CanvasCells(width, height) |-> <<0, 1>>])]

(* mutant: the grids of the instance are kept as the last call left them *)
KeptCanvases(grids, width, height) == grids

(* lines 149-153: whatever the instance holds, render_map replaces the four
   grids by new blank ones before it plots *)
ClearedCanvases(grids, width, height) == ClearCanvases(width, height)

(* a | dot, for a dot that is a single bit *)
(* mutant: the dot replaces the mask instead of being ORed into it *)
BitSet(a, dot) == dot

BitOr(a, dot) == IF (a \div dot) % 2 = 1 THEN a ELSE a + dot

(* (lat - min_lat) * lat_scale and (lon - min_lon) * lon_scale *)
ScaledLat(m, i) == QMul(QSub(QInt(m.lats[i]), m.min_lat), m.lat_scale)
ScaledLon(m, i) == QMul(QSub(QInt(m.lons[i]), m.min_lon), m.lon_scale)

(* a row pulled back onto the canvas instead of tested against it *)
CanvasYClamped(m, i) ==
    Max(0, Min(m.height - 1, m.height - 1 - QTrunc(ScaledLat(m, i))))

(* y = self.height - 1 - int(...), x = int(...) *)
CanvasY(m, i) == m.height - 1 - QTrunc(ScaledLat(m, i))
CanvasX(m, i) == QTrunc(ScaledLon(m, i))

(* 0 <= x < self.width and 0 <= y < self.height *)
InCanvas(m, y, x) == 0 <= x /\ x < m.width /\ 0 <= y /\ y < m.height
OnCanvas(m, i) == InCanvas(m, CanvasY(m, i), CanvasX(m, i))

(* int(... * 4) % 4 and int(... * 2) % 2 *)
SubY(m, i) == QTrunc(QMul(ScaledLat(m, i), QInt(4))) % 4
SubX(m, i) == QTrunc(QMul(ScaledLon(m, i), QInt(2))) % 2

(* color_map of _plot_points and _plot_blocks *)
color_map ==
    [red |-> <<91>>, green |-> <<92>>, yellow |-> <<93>>, blue |-> <<94>>,
     magenta |-> <<95>>, cyan |-> <<96>>, white |-> <<97>>,
     orange |-> <<38, 5, 208>>, purple |-> <<38, 5, 141>>,
     pink |-> <<38, 5, 213>>, brown |-> <<38, 5, 130>>,
     gray |-> <<90>>, grey |-> <<90>>]

AutoPalette ==
    << <<91>>, <<92>>, <<93>>, <<94>>, <<95>>, <<96>>, <<38, 5, 208>>, <<38, 5, 141>> >>

(* str.lower() on the labels of the model *)
Lower(label) == IF label = "Red" THEN "red" ELSE label

(* The labels that get a palette colour, in the order the loop over
   set(colors) meets them. *)
RECURSIVE AutoLabels(_)
AutoLabels(set_order) ==
    IF set_order = <<>> THEN <<>>
    ELSE IF Lower(Head(set_order)) \notin DOMAIN color_map
         THEN <<Head(set_order)>> \o AutoLabels(Tail(set_order))
         ELSE AutoLabels(Tail(set_order))

(* unique_colors[color] = palette[len(unique_colors) % len(palette)] *)
UniqueColors(set_order) ==
    LET auto == AutoLabels(set_order)
    IN  [label \in SeqRange(auto) |->
            LET k == CHOOSE j \in 1..Len(auto) : auto[j] = label
            IN  AutoPalette[((k - 1) % Len(AutoPalette)) + 1]]

(* the colour code of point i: <<>> is '' (or, in _plot_blocks, None) *)
ColorCode(m, i) ==
    IF m.colors # <<>> /\ i <= Len(m.colors)
    THEN LET color_val == Lower(m.colors[i])
             unique_colors == UniqueColors(m.set_order)
         IN  IF color_val \in DOMAIN color_map THEN color_map[color_val]
             ELSE IF m.colors[i] \in DOMAIN unique_colors
                  THEN unique_colors[m.colors[i]]
                  ELSE <<>>
    ELSE <<>>

(* _plot_points, the loop over the points from point i on *)
RECURSIVE PlotPointsFrom(_, _, _)
PlotPointsFrom(m, i, g) ==
    IF i > Len(m.lats) THEN g
    ELSE IF OnCanvas(m, i)
         THEN LET p == <<CanvasY(m, i), CanvasX(m, i)>>
                  mask == BitOr(g.braille_canvas[p],
                                BRAILLE_DOTS[SubY(m, i) + 1][SubX(m, i) + 1])
              IN  PlotPointsFrom(m, i + 1,
                     [g EXCEPT !.braille_canvas[p] = mask,
                               !.canvas[p] = Cell(ColorCode(m, i), BRAILLE_BASE + mask)])
         ELSE PlotPointsFrom(m, i + 1, g)

plot_points(m, g) == PlotPointsFrom(m, 1, g)

(* q % 2.0 *)
QMod2(q) == QSub(q, QInt(2 * QFloor(QDiv(q, QInt(2)))))

(* _plot_blocks, the loop over the points: the halves and color_grid *)
RECURSIVE PlotBlocksFrom(_, _, _, _)
PlotBlocksFrom(m, i, g, color_grid) ==
    IF i > Len(m.lats) THEN [g |-> g, color_grid |-> color_grid]
    ELSE IF OnCanvas(m, i)
         THEN LET p == <<CanvasY(m, i), CanvasX(m, i)>>
                  y_fraction == QMod2(QMul(ScaledLat(m, i), QInt(2)))
                  g1 == IF QLt(y_fraction, <<1, 1>>)
                        THEN [g EXCEPT !.block_canvas[p].lower = TRUE]
                        ELSE [g EXCEPT !.block_canvas[p].upper = TRUE]
                  code == ColorCode(m, i)
              IN  PlotBlocksFrom(m, i + 1, g1,
                     IF code # <<>> THEN [color_grid EXCEPT ![p] = code]
                     ELSE color_grid)
         ELSE PlotBlocksFrom(m, i + 1, g, color_grid)

BlockChar(block) ==
    IF block.upper /\ block.lower THEN HALF_BLOCKS.full
    ELSE IF block.upper THEN HALF_BLOCKS.upper
    ELSE IF block.lower THEN HALF_BLOCKS.lower
    ELSE 32

plot_blocks(m, g) ==
    LET r == PlotBlocksFrom(m, 1, g, [p \in CanvasCells(m.width, m.height) |-> <<>>])
    IN  [r.g EXCEPT !.canvas =
            [p \in CanvasCells(m.width, m.height) |->
                LET char == BlockChar(r.g.block_canvas[p])
                IN  IF char # 32 /\ r.color_grid[p] # <<>>
                    THEN Cell(r.color_grid[p], char)
                    ELSE Cell(<<>>, char)]]

(* values[i] if values and i < len(values) else 1 *)
PointValue(m, i) == IF m.values # <<>> /\ i <= Len(m.values) THEN m.values[i] ELSE 1

(* density[y][x] += value for every point on the canvas *)
RECURSIVE AccumulateFrom(_, _, _)
AccumulateFrom(m, i, density) ==
    IF i > Len(m.lats) THEN density
    ELSE IF OnCanvas(m, i)
         THEN LET p == <<CanvasY(m, i), CanvasX(m, i)>>
              IN  AccumulateFrom(m, i + 1,
                     [density EXCEPT ![p] = QAdd(@, QInt(PointValue(m, i)))])
         ELSE AccumulateFrom(m, i + 1, density)

(* the cells (y + dy, x + dx), dy, dx in [-1, 0, 1], other than (y, x)
   itself, that lie on the canvas *)
Neighbours(m, p) ==
    {q \in {<<p[1] + dy, p[2] + dx>> : dy \in {-1, 0, 1}, dx \in {-1, 0, 1}} :
        q # p /\ InCanvas(m, q[1], q[2])}

RECURSIVE QSumOver(_, _)
QSumOver(S, f) ==
    IF S = {} THEN <<0, 1>>
    ELSE LET q == CHOOSE q \in S : TRUE
         IN  QAdd(f[q], QSumOver(S \ {q}, f))

(* mutant: the centre weight is left out of the divisor *)
SmoothOverNeighbours(m, density) ==
    Force([p \in CanvasCells(m.width, m.height) |->
        QDiv(QAdd(QMul(QInt(4), density[p]), QSumOver(Neighbours(m, p), density)),
             QInt(Max(1, Cardinality(Neighbours(m, p)))))])

(* one pass of the smoothing: (4 * centre + neighbours) / (4 + how many) *)
SmoothOnce(m, density) ==
    Force([p \in CanvasCells(m.width, m.height) |->
        LET neighbours == Neighbours(m, p)
        IN  QDiv(QAdd(QMul(QInt(4), density[p]), QSumOver(neighbours, density)),
                 QInt(4 + Cardinality(neighbours)))])

RECURSIVE smooth_density(_, _, _)
smooth_density(m, density, iterations) ==
    IF iterations = 0 THEN density
    ELSE smooth_density(m, SmoothOnce(m, density), iterations - 1)

(* the largest positive value of the grid, 0 when there is none *)
MaxDensity(m, density) ==
    LET positive == {p \in CanvasCells(m.width, m.height) : QLt(<<0, 1>>, density[p])}
    IN  IF positive = {} THEN <<0, 1>>
        ELSE density[CHOOSE p \in positive : \A q \in positive : QLe(density[q], density[p])]

(* max_density as the first loop of _plot_density leaves it: the largest
   running cell total *)
RECURSIVE RunningMaxFrom(_, _, _, _)
RunningMaxFrom(m, i, density, max_density) ==
    IF i > Len(m.lats) THEN max_density
    ELSE IF OnCanvas(m, i)
         THEN LET p == <<CanvasY(m, i), CanvasX(m, i)>>
                  d1 == [density EXCEPT ![p] = QAdd(@, QInt(PointValue(m, i)))]
              IN  RunningMaxFrom(m, i + 1, d1, QMax(max_density, d1[p]))
         ELSE RunningMaxFrom(m, i + 1, density, max_density)

(* normalized = density / max_density if max_density > 0 else 0 *)
NormalizedDensity(value, max_density) ==
    IF QLt(<<0, 1>>, max_density) THEN QDiv(value, max_density) ELSE <<0, 1>>

DensityColor(normalized) ==
    IF QLt(normalized, <<1, 5>>) THEN <<94>>
    ELSE IF QLt(normalized, <<2, 5>>) THEN <<96>>
    ELSE IF QLt(normalized, <<3, 5>>) THEN <<92>>
    ELSE IF QLt(normalized, <<4, 5>>) THEN <<93>>
    ELSE <<91>>

(* block_idx = min(int(normalized * len(BLOCK_CHARS)), len(BLOCK_CHARS) - 1) *)
BlockIdx(normalized) ==
    Min(QTrunc(QMul(normalized, QInt(Len(BLOCK_CHARS)))), Len(BLOCK_CHARS) - 1)

plot_density(m, g) ==
    LET max_density == RunningMaxFrom(m, 1, g.density_map, <<0, 1>>)
        density == smooth_density(m, AccumulateFrom(m, 1, g.density_map), 2)
    IN  [g EXCEPT !.density_map = density,
                  !.canvas =
            [p \in CanvasCells(m.width, m.height) |->
                IF QLt(<<0, 1>>, density[p])
                THEN LET normalized == NormalizedDensity(density[p], max_density)
                     IN  Cell(DensityColor(normalized),
                              BLOCK_CHARS[BlockIdx(normalized) + 1])
                ELSE g.canvas[p]]]

(* the green -> yellow -> red gradient of the two true-colour heat maps *)
HeatColor(normalized) ==
    IF QLe(normalized, <<1, 2>>)
    THEN <<38, 2, QTrunc(QMul(normalized, QInt(2 * 255))), 255, 0>>
    ELSE <<38, 2, 255,
           QTrunc(QMul(QSub(<<1, 1>>, QMul(QSub(normalized, <<1, 2>>), QInt(2))),
                       QInt(255))), 0>>

plot_blocks_heatmap(m, g) ==
    LET density == smooth_density(m, AccumulateFrom(m, 1, g.density_map), 2)
        max_density == MaxDensity(m, density)
    IN  [g EXCEPT !.density_map = density,
                  !.canvas =
            [p \in CanvasCells(m.width, m.height) |->
                IF QLt(<<0, 1>>, density[p])
                THEN Cell(HeatColor(NormalizedDensity(density[p], max_density)), 9608)
                ELSE g.canvas[p]]]

DimGreen == <<38, 2, 0, 128, 0>>

(* _plot_braille_heatmap, the second loop over the points *)
RECURSIVE PlotBrailleHeatFrom(_, _, _, _, _)
PlotBrailleHeatFrom(m, i, g, smoothed_density, max_density) ==
    IF i > Len(m.lats) THEN g
    ELSE IF OnCanvas(m, i)
         THEN LET p == <<CanvasY(m, i), CanvasX(m, i)>>
                  mask == BitOr(g.braille_canvas[p],
                                BRAILLE_DOTS[SubY(m, i) + 1][SubX(m, i) + 1])
                  color == IF /\ QLt(<<0, 1>>, smoothed_density[p])
                              /\ QLt(<<0, 1>>, max_density)
                           THEN HeatColor(QDiv(smoothed_density[p], max_density))
                           ELSE DimGreen
              IN  PlotBrailleHeatFrom(m, i + 1,
                     [g EXCEPT !.braille_canvas[p] = mask,
                               !.canvas[p] = Cell(color, BRAILLE_BASE + mask)],
                     smoothed_density, max_density)
         ELSE PlotBrailleHeatFrom(m, i + 1, g, smoothed_density, max_density)

(* the density of this mode is a local grid: self.density_map stays clear *)
plot_braille_heatmap(m, g) ==
    LET density_map ==
            AccumulateFrom(m, 1, [p \in CanvasCells(m.width, m.height) |-> <<0, 1>>])
        smoothed_density == SmoothOnce(m, density_map)
    IN  PlotBrailleHeatFrom(m, 1, g, smoothed_density, MaxDensity(m, smoothed_density))

(* the points that fall on the canvas, as (y, x), in input order *)
RECURSIVE CanvasPointsFrom(_, _)
CanvasPointsFrom(m, i) ==
    IF i > Len(m.lats) THEN <<>>
    ELSE IF OnCanvas(m, i)
         THEN << <<CanvasY(m, i), CanvasX(m, i)>> >> \o CanvasPointsFrom(m, i + 1)
         ELSE CanvasPointsFrom(m, i + 1)

threshold == 2

(* math.sqrt(dy**2 + dx**2) <= threshold *)
Near(point, other) ==
    (point[1] - other[1]) * (point[1] - other[1])
    + (point[2] - other[2]) * (point[2] - other[2]) <= threshold * threshold

(* mutant: the absorbed points are not marked as visited *)
RECURSIVE ClustersUnmarked(_, _, _)
ClustersUnmarked(points, i, visited) ==
    IF i > Len(points) THEN <<>>
    ELSE IF i \in visited THEN ClustersUnmarked(points, i + 1, visited)
    ELSE LET nearby == {j \in 1..Len(points) :
                           j \notin visited /\ j # i /\ Near(points[i], points[j])}
         IN  << <<i>> \o SortedKeys(nearby) >>
                 \o ClustersUnmarked(points, i + 1, visited \cup {i})

(* _identify_clusters: the clusters in the order of their ids; each is the
   sequence of the indices (into points) of its members, the seed first *)
RECURSIVE ClustersFrom(_, _, _)
ClustersFrom(points, i, visited) ==
    IF i > Len(points) THEN <<>>
    ELSE IF i \in visited THEN ClustersFrom(points, i + 1, visited)
    ELSE LET nearby == {j \in 1..Len(points) :
                           j \notin visited /\ j # i /\ Near(points[i], points[j])}
             cluster == <<i>> \o SortedKeys(nearby)
         IN  <<cluster>> \o ClustersFrom(points, i + 1, visited \cup {i} \cup nearby)

identify_clusters(m) == ClustersFrom(CanvasPointsFrom(m, 1), 1, {})

(* the glyph for a cluster of the given size: bullet, fisheye, bullseye,
   circled plus *)
ClusterChar(size) ==
    IF size < 5 THEN 8226
    ELSE IF size < 10 THEN 9673
    ELSE IF size < 20 THEN 9678
    ELSE 8853

ClusterColors == << <<91>>, <<92>>, <<93>>, <<94>>, <<95>>, <<96>> >>

(* str(size), as code points *)
RECURSIVE Digits(_)
Digits(n) == IF n < 10 THEN <<48 + n>> ELSE Digits(n \div 10) \o <<48 + (n % 10)>>

(* _plot_clusters, the loop over the clusters from cluster k on *)
RECURSIVE PlotClustersFrom(_, _, _, _, _)
PlotClustersFrom(m, points, clusters, k, g) ==
    IF k > Len(clusters) THEN g
    ELSE LET members == clusters[k]
             size == Len(members)
             y == QTrunc(Q(SumSeq([j \in 1..size |-> points[members[j]][1]]), size))
             x == QTrunc(Q(SumSeq([j \in 1..size |-> points[members[j]][2]]), size))
             color == ClusterColors[((k - 1) % Len(ClusterColors)) + 1]
             label == IF size >= 10 /\ x + 2 < m.width
                      THEN SubSeq(Digits(size), 1,
                                  Min(Len(Digits(size)), Min(3, m.width - x - 1)))
                      ELSE <<>>
         IN  IF InCanvas(m, y, x)
             THEN PlotClustersFrom(m, points, clusters, k + 1,
                     [g EXCEPT !.canvas =
                         [p \in CanvasCells(m.width, m.height) |->
                             IF p = <<y, x>> THEN Cell(color, ClusterChar(size))
                             ELSE IF p[1] = y /\ p[2] > x /\ p[2] - x <= Len(label)
                                  THEN Cell(<<90>>, label[p[2] - x])
                                  ELSE g.canvas[p]]])
             ELSE PlotClustersFrom(m, points, clusters, k + 1, g)

plot_clusters(m, g) ==
    PlotClustersFrom(m, CanvasPointsFrom(m, 1), identify_clusters(m), 1, g)

(* render_map, lines 155-167: the dispatch on map_type *)
Plot(m, g) ==
    IF m.map_type \in {"density", "heatmap"} THEN plot_density(m, g)
    ELSE IF m.map_type = "blocks_heatmap" THEN plot_blocks_heatmap(m, g)
    ELSE IF m.map_type = "braille_heatmap" THEN plot_braille_heatmap(m, g)
    ELSE IF m.map_type = "clusters" THEN plot_clusters(m, g)
    ELSE IF m.map_type = "blocks" THEN plot_blocks(m, g)
    ELSE plot_points(m, g)

(* what the plotting methods read: the arguments, the viewport and self *)
PlotArgs(c, vp) ==
    [lats |-> c.lats, lons |-> c.lons, values |-> c.values, colors |-> c.colors,
     set_order |-> c.set_order, map_type |-> c.map_type,
     width |-> SelfWidth(c.width), height |-> SelfHeight(c.height),
     min_lat |-> vp.min_lat, min_lon |-> vp.min_lon,
     lat_scale |-> vp.lat_scale, lon_scale |-> vp.lon_scale]

(* not lats or not lons *)
NoPoints(lats, lons) == lats = <<>> \/ lons = <<>>

(* lines 145-170, once the viewport vp is known, for an instance whose
   grids are self_grids when the call begins *)
RenderOn(self_grids, c, vp, calls) ==
    IF vp.lat_span[1] = 0 \/ vp.lon_span[1] = 0
    THEN [ret |-> Raise("ZeroDivisionError"),
          locals |-> [stage |-> "scale", find_density_center_calls |-> calls,
                      viewport |-> vp]]
    ELSE [ret |-> Return(ChartText),
          locals |-> [stage |-> "chart", find_density_center_calls |-> calls,
                      viewport |-> vp,
                      grids |-> Plot(PlotArgs(c, vp),
                                     ClearedCanvases(self_grids, SelfWidth(c.width),
                                                     SelfHeight(c.height)))]]

(* the same for a new instance, whose grids are those of __init__ *)
RenderIn(c, vp, calls) ==
    RenderOn(ClearCanvases(SelfWidth(c.width), SelfHeight(c.height)), c, vp, calls)

(* lines 98-170 for the call record c, given the viewport vp that lines
   102-147 compute for its points *)
RenderWith(c, vp) ==
    IF NoPoints(c.lats, c.lons)
    THEN [ret |-> Return(NoData),
          locals |-> [stage |-> "empty", find_density_center_calls |-> 0]]
    ELSE RenderIn(c, vp, IF c.center_on_density /\ Len(c.lats) > 2 THEN 1 ELSE 0)

(* the viewport of the call record c *)
ViewportOf(c) ==
    Viewport(c.lats, c.lons, SelfWidth(c.width), SelfHeight(c.height),
             c.aspect_ratio, c.center_on_density)

(* MapRenderer(width, height, aspect_ratio).render_map(...) for the call
   record c: the return value and what the renderer holds afterwards *)
render_map(c) == RenderWith(c, ViewportOf(c))

(***************************************************************************)
(* Actions: one call of a renderer from the idle state, and its return.    *)
(***************************************************************************)
InputValues == (-1)..MaxVal
WaffleSchemes == {"distinct", "gradient", "monochrome", "other"}
PieSchemes == {"distinct", "gradient", "pastel", "other"}

Idle == call.fn = "none"

(* Each action binds the result of the call with \E over a singleton, so
   that the call is evaluated once for the three variables it sets. *)
RenderWaffle ==
    /\ Idle
    /\ \E values \in SeqsUpTo(InputValues, MaxLen), total_cells \in 0..MaxCells,
          scheme \in {"distinct", "gradient"} :
        \E r \in {render_waffle_chart(values, total_cells, scheme)} :
            /\ call' = [fn |-> "render_waffle_chart", values |-> values,
                        total_cells |-> total_cells, scheme |-> scheme]
            /\ ret' = r.ret
            /\ locals' = r.locals
    /\ UNCHANGED loop

RenderPie ==
    /\ Idle
    /\ \E values \in SeqsUpTo(InputValues, MaxLen), scheme \in {"distinct", "pastel"} :
        \E r \in {render_pie_chart(values, scheme)} :
            /\ call' = [fn |-> "render_pie_chart", values |-> values,
                        scheme |-> scheme]
            /\ ret' = r.ret
            /\ locals' = r.locals
    /\ UNCHANGED loop

(* Rows (x, y) of a query result, and the value column, which may be absent. *)
MatrixRows == SeqsUpTo((NoneKey..MaxKey) \X (NoneKey..MaxKey), MaxRows)
CellValues(n, has_values) == IF has_values THEN [1..n -> InputValues] ELSE {<<>>}

RenderMatrix ==
    /\ Idle
    /\ \E rows \in MatrixRows, has_values \in BOOLEAN,
          color_scheme \in {"green_yellow_red", "blue_white_red", "cool_warm"} :
        \E x_values \in {[i \in 1..Len(rows) |-> rows[i][1]]},
           y_values \in {[i \in 1..Len(rows) |-> rows[i][2]]},
           cell_values \in CellValues(Len(rows), has_values) :
          \E r \in {render_matrix_heatmap(x_values, y_values, cell_values, color_scheme)} :
            /\ call' = [fn |-> "render_matrix_heatmap", x_values |-> x_values,
                        y_values |-> y_values, cell_values |-> cell_values,
                        has_values |-> has_values, color_scheme |-> color_scheme]
            /\ ret' = r.ret
            /\ locals' = r.locals
    /\ UNCHANGED loop

(* A query result with one wide axis: one row of value 1 for each of n keys
   of that axis (None among them or not), all in the same line of the other
   axis, and a second row, of value extra, for up to two of the keys in
   another line.  n runs from below the limit of 20 to MaxOver above it. *)
MaxOver == 2
WideKeys(n, with_none) == IF with_none THEN NoneKey..(n - 1) ELSE 1..n
RepeatedKeys(keys) == {{}} \cup {{a, b} : a, b \in keys}
WideAxis(n, with_none, repeated) ==
    [i \in 1..n |-> IF with_none THEN i - 1 ELSE i] \o SortedKeys(repeated)
CrossAxis(n, repeated) ==
    [i \in 1..n |-> 1] \o [j \in 1..Cardinality(repeated) |-> 2]
WideValues(n, repeated, extra) ==
    [i \in 1..n |-> 1] \o [j \in 1..Cardinality(repeated) |-> extra]

RenderWideMatrix ==
    /\ Idle
    /\ \E n \in (max_cols - 1)..(max_cols + MaxOver), with_none \in BOOLEAN,
          wide \in {"x", "y"}, extra \in {-1, 1} :
        \E repeated \in RepeatedKeys(WideKeys(n, with_none)) :
          \E x_values \in {IF wide = "x" THEN WideAxis(n, with_none, repeated)
                                         ELSE CrossAxis(n, repeated)},
             y_values \in {IF wide = "y" THEN WideAxis(n, with_none, repeated)
                                         ELSE CrossAxis(n, repeated)},
             cell_values \in {WideValues(n, repeated, extra)} :
            \E r \in {render_matrix_heatmap(x_values, y_values, cell_values,
                                            "green_yellow_red")} :
              /\ call' = [fn |-> "render_matrix_heatmap", x_values |-> x_values,
                          y_values |-> y_values, cell_values |-> cell_values,
                          has_values |-> TRUE, color_scheme |-> "green_yellow_red"]
              /\ ret' = r.ret
              /\ locals' = r.locals
    /\ UNCHANGED loop

GenerateColors ==
    /\ Idle
    /\ \E chart \in {"waffle", "pie"}, n \in 0..MaxN, k \in 0..MaxCustom,
          scheme \in WaffleSchemes \cup PieSchemes :
        \E r \in {IF chart = "waffle"
                  THEN waffle_generate_colors(n, scheme, CustomColors(k))
                  ELSE pie_generate_colors(n, scheme, CustomColors(k))} :
            /\ call' = [fn |-> "generate_colors", chart |-> chart, n |-> n,
                        scheme |-> scheme, custom |-> k]
            /\ ret' = IF r.status = "raise" THEN Raise(r.exc) ELSE Return("<colors>")
            /\ locals' = [fn |-> "colors", colors |-> r.colors]
    /\ UNCHANGED loop

(* The inputs of the map.  The places are whole degrees; the aspect ratios
   are the two defaults (MapRenderer.__init__ and the module's render_map);
   center_on_density keeps its default, which no caller overrides. *)
MaxPts == 3
Places == {<<0, 0>>, <<1, 1>>, <<4, 0>>}
AspectRatios == {<<9, 20>>, <<2, 1>>}
MapTypes ==
    {"points", "blocks", "clusters", "density", "heatmap", "blocks_heatmap",
     "braille_heatmap"}
(* Two canvases: on the taller one a point outside the latitude window is
   at least one row away from it, on the other one less than a row. *)
CanvasSizes == {[width |-> 4, height |-> 4], [width |-> 4, height |-> 6]}

(* colors: None, or a label per point, all "a" but for at most one point *)
ColorLists(n) ==
    {<<>>} \cup {[i \in 1..n |-> IF i = k THEN label ELSE "a"] :
                    k \in 1..n, label \in {"a", "b", "Red"}}

(* values: None, or a weight per point, all 1 but for at most one point *)
ValueLists(n) ==
    {<<>>} \cup {[i \in 1..n |-> IF i = k THEN weight ELSE 1] :
                    k \in 1..n, weight \in {1, 2}}

(* the orders in which iterating over set(colors) can yield its elements:
   the order follows the hash values of the strings, which differ from one
   process to the next *)
SetOrders(colors) ==
    LET S == SeqRange(colors)
    IN  {o \in [1..Cardinality(S) -> S] : \A i, j \in 1..Cardinality(S) : o[i] = o[j] => i = j}

(* One call of render_map.  The viewport depends on the points, the canvas
   and the aspect ratio only, so it is computed once for all the calls that
   share them. *)
RenderMap ==
    /\ Idle
    /\ \E pts \in SeqsUpTo(Places, MaxPts), aspect_ratio \in AspectRatios,
          size \in CanvasSizes :
         \E on \in {[fn |-> "render_map",
                     lats |-> Force([i \in 1..Len(pts) |-> pts[i][1]]),
                     lons |-> Force([i \in 1..Len(pts) |-> pts[i][2]]),
                     width |-> size.width, height |-> size.height,
                     aspect_ratio |-> aspect_ratio, center_on_density |-> TRUE]} :
           \E vp \in {IF pts = <<>> THEN <<>> ELSE ViewportOf(on)},
              map_type \in MapTypes :
             \E values \in (IF map_type \in {"density", "heatmap", "blocks_heatmap",
                                              "braille_heatmap"}
                            THEN ValueLists(Len(pts)) ELSE {<<>>}),
                colors \in (IF map_type \in {"points", "blocks"}
                            THEN ColorLists(Len(pts)) ELSE {<<>>}) :
               \E set_order \in SetOrders(colors) :
                 \E c \in {[fn |-> "render_map", lats |-> on.lats, lons |-> on.lons,
                            values |-> values, colors |-> colors,
                            set_order |-> set_order, map_type |-> map_type,
                            width |-> on.width, height |-> on.height,
                            aspect_ratio |-> aspect_ratio,
                            center_on_density |-> on.center_on_density,
                            again |-> FALSE]} :
                   \E r \in {RenderWith(c, vp)} :
                       /\ call' = c
                       /\ ret' = r.ret
                       /\ locals' = r.locals
                       /\ UNCHANGED loop

(* A second call of render_map on the instance that has just drawn a chart
   of at most MaxAgainPts points: the same arguments, and any map type when
   the call has neither colors nor values.  The instance still holds the
   grids of the first call. *)
MaxAgainPts == 2

RenderMapAgain ==
    /\ call.fn = "render_map"
    /\ locals.stage = "chart"
    /\ ~call.again
    /\ Len(call.lats) <= MaxAgainPts
    /\ \E map_type \in (IF call.colors = <<>> /\ call.values = <<>>
                         THEN MapTypes ELSE {call.map_type}) :
         \E c \in {[call EXCEPT !.map_type = map_type, !.again = TRUE]} :
           \E r \in {RenderOn(locals.grids, c, ViewportOf(c),
                              IF c.center_on_density /\ Len(c.lats) > 2 THEN 1 ELSE 0)} :
               /\ call' = c
               /\ ret' = r.ret
               /\ locals' = r.locals
               /\ UNCHANGED loop

(* render_map in clusters mode on a crowd: n points at one place, and at
   most one more point at another place. *)
MaxCrowd == 21
Crowds ==
    {[i \in 1..(n + Len(lone)) |-> IF i <= n THEN place ELSE lone[1]] :
        n \in 1..MaxCrowd, place \in Places, lone \in SeqsUpTo(Places, 1)}

RenderCrowdMap ==
    /\ Idle
    /\ \E pts \in Crowds, aspect_ratio \in AspectRatios, size \in CanvasSizes :
         \E c \in {[fn |-> "render_map",
                    lats |-> Force([i \in 1..Len(pts) |-> pts[i][1]]),
                    lons |-> Force([i \in 1..Len(pts) |-> pts[i][2]]),
                    values |-> <<>>, colors |-> <<>>, set_order |-> <<>>,
                    map_type |-> "clusters",
                    width |-> size.width, height |-> size.height,
                    aspect_ratio |-> aspect_ratio, center_on_density |-> TRUE,
                    again |-> FALSE]} :
           \E r \in {RenderWith(c, ViewportOf(c))} :
               /\ call' = c
               /\ ret' = r.ret
               /\ locals' = r.locals
               /\ UNCHANGED loop

(* The green -> yellow -> red gradient at its three places, for normalized
   = step / GradientSteps: the cell colour of the matrix heatmap, the block
   colour of the blocks heat map (its r, g, b after the 38;2 prefix), and
   entry step of the waffle's gradient scheme for GradientSteps + 1
   categories, where t = i / max(1, n - 1). *)
GradientSteps == 100
GradientSources == {"matrix_heatmap", "map_renderer", "waffle_chart"}

GradientRgb(source, step) ==
    IF source = "matrix_heatmap"
    THEN MatrixColor("green_yellow_red", Q(step, GradientSteps))
    ELSE IF source = "map_renderer"
    THEN SubSeq(HeatColor(Q(step, GradientSteps)), 3, 5)
    ELSE WaffleGradientColors(GradientSteps + 1).colors[step + 1]

GradientColor ==
    /\ Idle
    /\ \E source \in GradientSources, step \in 0..GradientSteps :
        /\ call' = [fn |-> "gradient", source |-> source, step |-> step,
                    normalized |-> Q(step, GradientSteps)]
        /\ ret' = Return("<color>")
        /\ locals' = [fn |-> "gradient", rgb |-> GradientRgb(source, step)]
    /\ UNCHANGED loop

ReturnToCaller ==
    /\ ~Idle
    /\ call' = NoCall
    /\ ret' = NoRet
    /\ locals' = NoLocals
    /\ UNCHANGED loop

(***************************************************************************)
(* main.refresh_loop.  loop.pc is the position in the function:            *)
(*   "off"     not called                                                  *)
(*   "setup"   lines 1182-1196: stop_event, SIGINT handler, JSON load      *)
(*   "while"   line 1199: the test of stop_event                           *)
(*   "tick"    lines 1201-1211: query, extract, render                     *)
(*   "after"   line 1213 after a tick that succeeded                       *)
(*   "except"  lines 1217-1219: the handler of Exception                   *)
(*   "wait"    lines 1216 / 1222: stop_event.wait(interval_seconds)        *)
(*   "interrupt" lines 1223-1225: the handler of KeyboardInterrupt         *)
(*   "finally" lines 1226-1228                                             *)
(*   "done"    the call is over; loop.outcome tells how                    *)
(* ticks and errors count the ticks started and the errors printed; they   *)
(* saturate at MaxTicks.                                                   *)
(***************************************************************************)
LoopOff ==
    [pc |-> "off", interval |-> [given |-> FALSE, text |-> <<>>],
     interval_seconds |-> 0, json |-> FALSE, json_conn |-> "none",
     stop_event |-> FALSE, ticks |-> 0, errors |-> 0, in_flight |-> 0,
     outcome |-> "none"]

Bump(n) == Min(n + 1, MaxTicks)

(***************************************************************************)
(* main.parse_interval.  The --interval option is a sequence of characters *)
(* or is absent (None); the characters of the model are the digits up to   *)
(* MaxInterval, the sign, the units s, M and h, and a letter that is no    *)
(* unit.  float() of such a string is defined for an optional sign before  *)
(* one or more digits.                                                     *)
(***************************************************************************)
MaxText == 3
DigitChars == <<"0", "1", "2", "3", "4", "5", "6", "7", "8", "9">>
Digits10 == {DigitChars[d + 1] : d \in 0..Min(MaxInterval, 9)}
IntervalChars == Digits10 \cup {"-", "s", "M", "h", "x"}

DigitValue(ch) == (CHOOSE d \in 1..10 : DigitChars[d] = ch) - 1

(* str.lower on one character *)
LowerChar(ch) == IF ch = "M" THEN "m" ELSE ch

unit_multipliers == [s |-> 1, m |-> 60, h |-> 3600]

RECURSIVE DecimalValue(_)
DecimalValue(text) ==
    IF text = <<>> THEN 0
    ELSE 10 * DecimalValue(SubSeq(text, 1, Len(text) - 1))
         + DigitValue(text[Len(text)])

AllDigits(text) == text # <<>> /\ \A i \in 1..Len(text) : text[i] \in Digits10

(* float(text): [ok, value]; ok is FALSE where float raises ValueError *)
Float(text) ==
    IF AllDigits(text) THEN [ok |-> TRUE, value |-> DecimalValue(text)]
    ELSE IF text # <<>> /\ text[1] = "-" /\ AllDigits(Tail(text))
    THEN [ok |-> TRUE, value |-> 0 - DecimalValue(Tail(text))]
    ELSE [ok |-> FALSE, value |-> 0]

(* value * unit_multipliers[unit], or the ValueError raised again *)
Times(parsed, multiplier) ==
    [ok |-> parsed.ok, value |-> parsed.value * multiplier]

parse_interval(interval) ==
    IF ~interval.given \/ interval.text = <<>> THEN [ok |-> TRUE, value |-> 0]
    ELSE IF LowerChar(interval.text[Len(interval.text)]) \notin DOMAIN unit_multipliers
    THEN Float(interval.text)
    ELSE Times(Float(SubSeq(interval.text, 1, Len(interval.text) - 1)),
               unit_multipliers[LowerChar(interval.text[Len(interval.text)])])

(* the values of the --interval option *)
Intervals ==
    {[given |-> FALSE, text |-> <<>>]}
        \cup {[given |-> TRUE, text |-> t] : t \in SeqsUpTo(IntervalChars, MaxText)}

(***************************************************************************)
(* main.parse_dimension.  The --width / --height option is None or a       *)
(* sequence of characters: three digits, the sign, the percent sign, a     *)
(* blank and a letter.  On such strings int() and float() accept the same  *)
(* texts: blanks around an optional sign followed by one or more digits.   *)
(***************************************************************************)
MaxDimText == 4
DimensionChars == {"0", "1", "5", "-", "%", " ", "x"}
TerminalSizes == {24, 80}

(* str.strip() *)
RECURSIVE Strip(_)
Strip(text) ==
    IF text = <<>> THEN text
    ELSE IF Head(text) = " " THEN Strip(Tail(text))
    ELSE IF text[Len(text)] = " " THEN Strip(SubSeq(text, 1, Len(text) - 1))
    ELSE text

IsNumeral(text) ==
    text # <<>> /\ \A i \in 1..Len(text) : \E d \in 1..10 : DigitChars[d] = text[i]

(* int(text) and float(text): [ok, value]; ok is FALSE for a ValueError *)
Number(text) ==
    LET t == Strip(text)
    IN  IF IsNumeral(t) THEN [ok |-> TRUE, value |-> DecimalValue(t)]
        ELSE IF t # <<>> /\ t[1] = "-" /\ IsNumeral(Tail(t))
        THEN [ok |-> TRUE, value |-> 0 - DecimalValue(Tail(t))]
        ELSE [ok |-> FALSE, value |-> 0]

NoDimension(warning) == [none |-> TRUE, value |-> 0, warning |-> warning]
Dimension(n) == [none |-> FALSE, value |-> n, warning |-> ""]

(* lines 80-85: the size, when it is positive *)
SizeOf(size) ==
    IF size > 0 THEN Dimension(size) ELSE NoDimension("Size must be positive")

(* lines 70-75: int(terminal_size * percentage / 100) within (0, 100] *)
PercentOf(terminal_size, percentage) ==
    IF 0 < percentage /\ percentage <= 100
    THEN Dimension(QTrunc(Q(terminal_size * percentage, 100)))
    ELSE NoDimension("Percentage must be between 0 and 100")

parse_dimension(value, terminal_size) ==
    IF ~value.given \/ value.text = <<>> THEN NoDimension("")
    ELSE LET text == Strip(value.text)
         IN  IF text # <<>> /\ text[Len(text)] = "%"
             THEN LET percentage == Number(SubSeq(text, 1, Len(text) - 1))
                  IN  IF percentage.ok
                      THEN PercentOf(terminal_size, percentage.value)
                      ELSE NoDimension("Invalid percentage value")
             ELSE LET size == Number(text)
                  IN  IF size.ok THEN SizeOf(size.value)
                      ELSE NoDimension("Invalid size value")

(* the values of the --width / --height option *)
Dimensions ==
    {[given |-> FALSE, text |-> <<>>]}
        \cup {[given |-> TRUE, text |-> t] : t \in SeqsUpTo(DimensionChars, MaxDimText)}

ParseDimension ==
    /\ Idle
    /\ \E value \in Dimensions, terminal_size \in TerminalSizes :
        \E r \in {parse_dimension(value, terminal_size)} :
            /\ call' = [fn |-> "parse_dimension", value |-> value,
                        terminal_size |-> terminal_size]
            /\ ret' = Return(IF r.none THEN "None" ELSE "<int>")
            /\ locals' = [fn |-> "dimension", result |-> r]
    /\ UNCHANGED loop

(* main, lines 1515-1520: interval_seconds = parse_interval(interval), then
   refresh_loop(query, chart_type, db_identifier, interval_seconds, ...,
   json_data); json is "json_data is not None and db_identifier ==
   ':memory:'".  A ValueError of parse_interval is printed by main, which
   exits with status 1 without calling refresh_loop. *)
CallRefreshLoop ==
    /\ loop.pc = "off"
    /\ \E interval \in Intervals, json \in BOOLEAN :
        \E parsed \in {parse_interval(interval)} :
            loop' = IF parsed.ok
                    THEN [LoopOff EXCEPT !.pc = "setup", !.interval = interval,
                                         !.interval_seconds = parsed.value,
                                         !.json = json, !.outcome = "running"]
                    ELSE [LoopOff EXCEPT !.pc = "done", !.interval = interval,
                                         !.json = json, !.outcome = "exit"]
    /\ UNCHANGED <<call, ret, locals>>

(* json_conn = duckdb.connect(':memory:'); load_json_to_duckdb (lines
   125-164) returns True or raises, and the exception leaves refresh_loop
   before the try statement is entered, with the connection open. *)
LoopSetup ==
    /\ loop.pc = "setup"
    /\ \/ /\ ~loop.json
          /\ loop' = [loop EXCEPT !.pc = "while"]
       \/ /\ loop.json
          /\ \E loaded \in BOOLEAN :
               loop' = IF loaded
                       THEN [loop EXCEPT !.pc = "while", !.json_conn = "open"]
                       ELSE [loop EXCEPT !.pc = "done", !.json_conn = "open",
                                         !.outcome = "raised"]
    /\ UNCHANGED <<call, ret, locals>>

(* mutant: the while test does not read stop_event *)
LoopWhileUnchecked ==
    /\ loop.pc = "while"
    /\ loop' = [loop EXCEPT !.pc = "tick", !.ticks = Bump(@), !.in_flight = @ + 1]
    /\ UNCHANGED <<call, ret, locals>>

(* while not stop_event.is_set(): *)
LoopWhile ==
    /\ loop.pc = "while"
    /\ loop' = IF loop.stop_event
               THEN [loop EXCEPT !.pc = "finally"]
               ELSE [loop EXCEPT !.pc = "tick", !.ticks = Bump(@),
                                 !.in_flight = @ + 1]
    /\ UNCHANGED <<call, ret, locals>>

(* One tick: the query, extract_chart_data and render_chart either all
   succeed or one of them raises. *)
TickOutcomes == {"ok", "Exception", "KeyboardInterrupt"}

(* where a finished tick goes *)
AfterTick(outcome) ==
    IF outcome = "ok" THEN "after"
    ELSE IF outcome = "Exception" THEN "except"
    ELSE "interrupt"

LoopTick ==
    /\ loop.pc = "tick"
    /\ \E outcome \in TickOutcomes :
        loop' = [loop EXCEPT !.pc = AfterTick(outcome), !.in_flight = @ - 1]
    /\ UNCHANGED <<call, ret, locals>>

(* if interval_seconds <= 0: break; else stop_event.wait(interval_seconds) *)
(* mutant: the loop is left after the first tick whatever the interval *)
BreakAlways(interval_seconds) == "finally"

(* mutant: the loop waits and goes on whatever the interval *)
BreakNever(interval_seconds) == "wait"

BreakOrWait(interval_seconds) ==
    IF interval_seconds <= 0 THEN "finally" ELSE "wait"

LoopAfterTick ==
    /\ loop.pc = "after"
    /\ loop' = [loop EXCEPT !.pc = BreakOrWait(loop.interval_seconds)]
    /\ UNCHANGED <<call, ret, locals>>

(* except Exception as e: print the error, then break or wait *)
LoopExcept ==
    /\ loop.pc = "except"
    /\ loop' = [loop EXCEPT !.pc = BreakOrWait(loop.interval_seconds),
                            !.errors = Bump(@)]
    /\ UNCHANGED <<call, ret, locals>>

(* stop_event.wait returns at the timeout or as soon as the event is set *)
LoopWait ==
    /\ loop.pc = "wait"
    /\ loop' = [loop EXCEPT !.pc = "while"]
    /\ UNCHANGED <<call, ret, locals>>

(* except KeyboardInterrupt: print "Exiting..." *)
LoopInterrupt ==
    /\ loop.pc = "interrupt"
    /\ loop' = [loop EXCEPT !.pc = "finally"]
    /\ UNCHANGED <<call, ret, locals>>

(* finally: if json_conn: json_conn.close(); then the function returns None *)
LoopFinally ==
    /\ loop.pc = "finally"
    /\ loop' = [loop EXCEPT !.pc = "done",
                            !.json_conn = IF @ = "open" THEN "closed" ELSE @,
                            !.outcome = "returned"]
    /\ UNCHANGED <<call, ret, locals>>

(* SIGINT: the installed handler sets stop_event, at any point of the call *)
Sigint ==
    /\ loop.pc \notin {"off", "setup", "done"}
    /\ ~loop.stop_event
    /\ loop' = [loop EXCEPT !.stop_event = TRUE]
    /\ UNCHANGED <<call, ret, locals>>

(* the caller regains control and may call again *)
LoopReturn ==
    /\ loop.pc = "done"
    /\ loop' = LoopOff
    /\ UNCHANGED <<call, ret, locals>>

LoopStep ==
    \/ LoopSetup
    \/ LoopWhile
    \/ LoopTick
    \/ LoopAfterTick
    \/ LoopExcept
    \/ LoopWait
    \/ LoopInterrupt
    \/ LoopFinally

NextLoop ==
    \/ CallRefreshLoop
    \/ LoopSetup
    \/ LoopWhile
    \/ LoopTick
    \/ LoopAfterTick
    \/ LoopExcept
    \/ LoopWait
    \/ LoopInterrupt
    \/ LoopFinally
    \/ Sigint
    \/ LoopReturn

Init ==
    /\ call = NoCall
    /\ ret = NoRet
    /\ locals = NoLocals
    /\ loop = LoopOff

Next ==
    \/ RenderWaffle
    \/ RenderPie
    \/ RenderMatrix
    \/ RenderMap
    \/ RenderMapAgain
    \/ GenerateColors
    \/ ReturnToCaller

Spec == Init /\ [][Next]_vars

(* The matrix heatmap alone, on query results with a wide axis. *)
NextWide ==
    \/ RenderWideMatrix
    \/ ReturnToCaller

SpecWide == Init /\ [][NextWide]_vars

(* The map alone, in clusters mode, on crowds. *)
NextCrowd ==
    \/ RenderCrowdMap
    \/ ReturnToCaller

SpecCrowd == Init /\ [][NextCrowd]_vars

(* The gradient alone. *)
NextGradient ==
    \/ GradientColor
    \/ ReturnToCaller

SpecGradient == Init /\ [][NextGradient]_vars

(* parse_dimension alone. *)
NextDimension ==
    \/ ParseDimension
    \/ ReturnToCaller

SpecDimension == Init /\ [][NextDimension]_vars

SpecLoop == Init /\ [][NextLoop]_vars

(* The loop is sequential code: a step that can be taken is taken. *)
SpecLoopFair == SpecLoop /\ WF_vars(LoopStep)

(***************************************************************************)
(* Properties.                                                             *)
(***************************************************************************)
AllPositive(values) == \A i \in 1..Len(values) : values[i] > 0
NonePositive(values) == \A i \in 1..Len(values) : values[i] <= 0

WaffleChart == call.fn = "render_waffle_chart" /\ locals.stage = "chart"
PieChart == call.fn = "render_pie_chart" /\ locals.stage = "chart"
MatrixCalled == call.fn = "render_matrix_heatmap"

(* C1: whenever the waffle renderer computes cell_counts (in particular for
   any list of positive values and any total_cells >= 0), the counts sum to
   total_cells exactly. *)
C1_WaffleAllocationSums ==
    WaffleChart => SumSeq(locals.cell_counts) = call.total_cells

(* C1 witness: three positive values whose shares are not whole cells, so
   that the last count is a remainder and not its own rounded share. *)
C1_Witness ==
    /\ WaffleChart
    /\ Len(call.values) = 3
    /\ AllPositive(call.values)
    /\ locals.cell_counts[3]
         # RoundedCells(locals.values[3], locals.total, call.total_cells)

(* C2: the pie sectors are in input order, the first starts at -pi/2 (-1/4
   turn), each ends where the next starts, sector i is value_i / total of a
   turn wide, and the widths add up to one turn (the last ends at 3/4). *)
RECURSIVE QSum(_)
QSum(s) == IF s = <<>> THEN <<0, 1>> ELSE QAdd(Head(s), QSum(Tail(s)))

C2_PieSectorPartition ==
    PieChart =>
        LET a == locals.angles
            n == Len(locals.values)
        IN  /\ Len(a) = n
            /\ a[1][1] = <<-1, 4>>
            /\ \A i \in 1..n :
                 QSub(a[i][2], a[i][1]) = Q(locals.values[i], locals.total)
            /\ \A i \in 1..(n - 1) : a[i][2] = a[i + 1][1]
            /\ a[n][2] = <<3, 4>>
            /\ QSum([i \in 1..n |-> QSub(a[i][2], a[i][1])]) = <<1, 1>>

(* C2 witness: three positive values, not all equal. *)
C2_Witness ==
    /\ PieChart
    /\ Len(call.values) = 3
    /\ AllPositive(call.values)
    /\ call.values[1] # call.values[2]

(* C5: every pivot cell (y, x) is the sum of the values of the input rows
   with that pair (1 per row without cell_values), and when the smallest
   and the largest displayed value are equal a coloured cell is normalized
   to 1/2, which the green-yellow-red gradient paints yellow. *)
RowValue(i) == IF call.has_values THEN call.cell_values[i] ELSE 1

RowSum(y, x) ==
    SumSeq([i \in 1..Len(call.x_values) |->
               IF call.x_values[i] = x /\ call.y_values[i] = y
               THEN RowValue(i) ELSE 0])

C5_MatrixAggregation ==
    (MatrixCalled /\ locals.stage # "empty") =>
        /\ \A y \in NoneKey..MaxKey, x \in NoneKey..MaxKey :
             PivotGet(locals.pivot_data, y, x) = RowSum(y, x)
        /\ (locals.stage = "chart" /\ locals.min_val = locals.max_val) =>
             \A k \in DOMAIN locals.cells :
                locals.cells[k].colored =>
                    /\ locals.cells[k].normalized = <<1, 2>>
                    /\ call.color_scheme = "green_yellow_red"
                         => locals.cells[k].rgb = <<255, 255, 0>>

(* C5 witness: two rows collide on the only cell, which holds their sum. *)
C5_Witness ==
    /\ MatrixCalled
    /\ locals.stage = "chart"
    /\ call.has_values
    /\ Len(call.x_values) = 2
    /\ call.x_values[1] = call.x_values[2]
    /\ call.y_values[1] = call.y_values[2]
    /\ call.cell_values = <<1, 2>>
    /\ call.color_scheme = "green_yellow_red"
    /\ locals.min_val = 3
    /\ locals.max_val = 3

(* C7 as stated: with every value zero or negative the pie and the waffle
   renderer, and with every pivot cell zero the matrix renderer, return
   exactly "No data to display". *)
PieOrWaffleCalled == call.fn \in {"render_pie_chart", "render_waffle_chart"}

MatrixAllZero ==
    /\ MatrixCalled
    /\ call.x_values # <<>>
    /\ \A y \in NoneKey..MaxKey, x \in NoneKey..MaxKey : RowSum(y, x) = 0

C7_AllZeroReturnsNoData ==
    /\ (PieOrWaffleCalled /\ call.values # <<>> /\ NonePositive(call.values))
          => ret = Return(NoData)
    /\ MatrixAllZero => ret = Return(NoData)

(* C7 amended: in that case the pie and the waffle renderer return "No data
   to display (all values are zero)", the matrix renderer returns "No data
   to display", and none of them raises. *)
C7_AllZeroPlaceholders ==
    /\ (PieOrWaffleCalled /\ call.values # <<>> /\ NonePositive(call.values))
          => ret = Return(NoDataAllZero)
    /\ MatrixAllZero => ret = Return(NoData)

(* C7 witness: a pie of a zero and a negative value. *)
C7_Witness ==
    /\ call.fn = "render_pie_chart"
    /\ call.values = <<0, -1>>
    /\ ret = Return(NoDataAllZero)

(* C8: for the "distinct" scheme generate_colors(n) returns n colours for
   every n, colour i being palette[i mod P] when n exceeds the palette. *)
PaletteOf(chart) == IF chart = "waffle" THEN WafflePalette ELSE PiePalette

DistinctCycled(palette, n) ==
    [i \in 1..n |-> palette[((i - 1) % Len(palette)) + 1]]

C8_DistinctPaletteCycles ==
    (/\ call.fn = "generate_colors"
     /\ call.scheme = "distinct"
     /\ (call.custom = 0 \/ call.custom < call.n))
        => /\ ret.status = "return"
           /\ locals.colors = DistinctCycled(PaletteOf(call.chart), call.n)

(* C9: in single-shot mode (interval <= 0) an error raised by the tick
   leaves refresh_loop as a raised exception. *)
C9_SingleShotErrorPropagates ==
    (loop.pc = "done" /\ loop.interval_seconds <= 0 /\ loop.errors > 0)
        => loop.outcome = "raised"

(* C10: with an interval > 0 the handler of a tick error prints it and goes
   on to wait (the loop is not left), and from there a further tick starts
   unless the stop flag is set. *)
C10_ErrorRecovery ==
    /\ [][(loop.pc = "except" /\ loop.interval_seconds > 0 /\ loop'.pc # "except")
            => (loop'.pc = "wait" /\ loop'.errors = Bump(loop.errors))]_vars
    /\ (loop.pc = "except" /\ loop.interval_seconds > 0)
          ~> (loop.pc = "tick" \/ loop.stop_event)

(* C10 witness: a second tick is running after an error was printed. *)
C10_Witness ==
    /\ loop.pc = "tick"
    /\ loop.interval_seconds > 0
    /\ loop.errors = 1
    /\ loop.ticks = 2
    /\ ~loop.stop_event

(***************************************************************************)
(* The map.                                                                *)
(***************************************************************************)
MapCalled == call.fn = "render_map"
MapChart == MapCalled /\ locals.stage = "chart"

IdenticalPoints(lats, lons) ==
    /\ Len(lats) >= 1
    /\ \A i \in 1..Len(lats) : lats[i] = lats[1] /\ lons[i] = lons[1]

(* C3: when render_map is called with N >= 1 identical points, on the
   min/max path (N < 3) and on the density path (N >= 3) alike, the
   viewport it uses has a latitude span and a longitude span of at least
   0.001, and computing the scale factors does not raise. *)
C3_ViewportSpanFloor ==
    (MapCalled /\ IdenticalPoints(call.lats, call.lons)) =>
        /\ ret.status = "return"
        /\ locals.stage = "chart"
        /\ QLe(<<1, 1000>>, locals.viewport.lat_span)
        /\ QLe(<<1, 1000>>, locals.viewport.lon_span)
        /\ locals.viewport.lat_scale =
               QDiv(QInt(SelfHeight(call.height) - 1), locals.viewport.lat_span)
        /\ locals.viewport.lon_scale =
               QDiv(QInt(SelfWidth(call.width) - 1), locals.viewport.lon_span)

(* three identical points have gone through the density path *)
C3_Witness ==
    /\ MapChart
    /\ Len(call.lats) = 3
    /\ IdenticalPoints(call.lats, call.lons)
    /\ locals.viewport.path = "density"
    /\ locals.find_density_center_calls = 1

(* one or two identical points have gone through the min/max path *)
C3_FallbackReached ==
    /\ MapChart
    /\ Len(call.lats) \in {1, 2}
    /\ IdenticalPoints(call.lats, call.lons)
    /\ locals.viewport.path = "bounds"
    /\ locals.viewport.lat_span = <<2, 1>>

(* the list without its i-th element *)
Drop(s, i) == Force([j \in 1..(Len(s) - 1) |-> IF j < i THEN s[j] ELSE s[j + 1]])

(* the call without point i, set(colors) iterating in the given order *)
CallWithout(i, set_order) ==
    [call EXCEPT !.lats = Drop(@, i),
                 !.lons = Drop(@, i),
                 !.values = IF @ = <<>> THEN @ ELSE Drop(@, i),
                 !.colors = IF @ = <<>> THEN @ ELSE Drop(@, i),
                 !.set_order = set_order]

(* the grids after plotting the points of c in the viewport of this call *)
Plotted(c) ==
    Plot(PlotArgs(c, locals.viewport),
         ClearCanvases(SelfWidth(c.width), SelfHeight(c.height)))

(* the computed (row, col) of point i lies outside [0,height) x [0,width) *)
Clipped(i) ==
    LET m == PlotArgs(call, locals.viewport)
        row == m.height - 1 - QTrunc(ScaledLat(m, i))
        col == QTrunc(ScaledLon(m, i))
    IN  ~(0 <= row /\ row < m.height /\ 0 <= col /\ col < m.width)

(* an earlier point carries the colour label of point i *)
LabelSeenBefore(i) == \E j \in 1..(i - 1) : call.colors[j] = call.colors[i]

(* The orders in which set(colors) can iterate once point i is gone: the
   set is built from the same labels in the same order, and iterates as
   before, when the label of point i was met before; otherwise the set is
   built differently and its order is any. *)
SetOrdersWithout(i) ==
    IF call.colors = <<>> \/ LabelSeenBefore(i) THEN {call.set_order}
    ELSE SetOrders(Drop(call.colors, i))

(* C4 as stated: in every plotting mode a point whose computed (row, col)
   lies outside the canvas changes no grid and raises no error: plotting
   without the point gives the same display canvas, Braille masks,
   half-blocks and density map. *)
C4_CanvasClipping ==
    MapChart =>
        /\ ret.status = "return"
        /\ \A i \in 1..Len(call.lats) :
              Clipped(i) =>
                  \E set_order \in SetOrdersWithout(i) :
                      Plotted(CallWithout(i, set_order)) = locals.grids

(* C4, amended: the same, for a clipped point that brings no colour label
   of its own: no colours are given, or an earlier point carries the same
   label. *)
C4_CanvasClippingKnownLabel ==
    MapChart =>
        /\ ret.status = "return"
        /\ \A i \in 1..Len(call.lats) :
              (Clipped(i) /\ (call.colors = <<>> \/ LabelSeenBefore(i))) =>
                  Plotted(CallWithout(i, call.set_order)) = locals.grids

(* a coloured point is clipped, after a point with its label, while another
   point is drawn *)
C4_Witness ==
    /\ MapChart
    /\ call.map_type = "points"
    /\ call.colors # <<>>
    /\ \E i \in 1..Len(call.lats) : Clipped(i) /\ LabelSeenBefore(i)
    /\ \E j \in 1..Len(call.lats) : ~Clipped(j)
    /\ \E p \in DOMAIN locals.grids.canvas : locals.grids.canvas[p] # Blank

EmptyInput ==
    \/ call.fn \in {"render_pie_chart", "render_waffle_chart"} /\ call.values = <<>>
    \/ call.fn = "render_matrix_heatmap" /\ call.x_values = <<>> /\ call.y_values = <<>>
    \/ call.fn = "render_map" /\ call.lats = <<>> /\ call.lons = <<>>

(* C6: each of the four renderers (pie, waffle, matrix heat map, map),
   called with empty input lists, returns exactly "No data to display" and
   does not raise; the map renderer does not call _find_density_center on
   an empty list of points. *)
C6_EmptyInput ==
    EmptyInput =>
        /\ ret = Return("No data to display")
        /\ locals.stage = "empty"
        /\ MapCalled => locals.find_density_center_calls = 0

(* the map renderer has returned from a call with no points *)
C6_Witness ==
    /\ MapCalled
    /\ call.lats = <<>>
    /\ ret.status = "return"
    /\ ret.text = "No data to display"
    /\ locals.find_density_center_calls = 0

C6_PieReached == call.fn = "render_pie_chart" /\ call.values = <<>> /\ ret = Return(NoData)
C6_WaffleReached == call.fn = "render_waffle_chart" /\ call.values = <<>> /\ ret = Return(NoData)
C6_MatrixReached == call.fn = "render_matrix_heatmap" /\ call.x_values = <<>> /\ ret = Return(NoData)

(***************************************************************************)
(* The refresh loop: single shot and cancellation.                         *)
(***************************************************************************)
LoopCalled == loop.pc \notin {"off"} /\ loop.outcome # "exit"
SingleShot == LoopCalled /\ loop.interval_seconds <= 0
LoopOver == loop.pc = "done"

(* C11 as stated: with an interval that is zero or absent (or negative),
   refresh_loop has run exactly one tick when it is over, and it returns. *)
C11_SingleShotExactlyOneTick ==
    (SingleShot /\ LoopOver) => (loop.ticks = 1 /\ loop.outcome = "returned")

(* C11, corrected: with an interval that is zero or absent (or negative),
   refresh_loop never starts a second tick and always comes to an end; when
   it returns it has run exactly one tick, whether that tick succeeded or
   failed, unless the stop flag was set before the first test of the loop,
   and it has run none when the JSON load raised. *)
C11_SingleShotAtMostOneTick ==
    /\ [](SingleShot => loop.ticks <= 1)
    /\ []((SingleShot /\ LoopOver /\ loop.outcome = "returned")
            => (loop.ticks = 1 \/ (loop.ticks = 0 /\ loop.stop_event)))
    /\ []((SingleShot /\ LoopOver /\ loop.outcome = "raised")
            => (loop.ticks = 0 /\ loop.json))
    /\ ((SingleShot /\ loop.pc = "setup") ~> LoopOver)

(* C11 witness: the option is absent, the one tick failed, the error was
   printed and the function returned. *)
C11_Witness ==
    /\ LoopOver
    /\ ~loop.interval.given
    /\ loop.interval_seconds = 0
    /\ loop.ticks = 1
    /\ loop.errors = 1
    /\ loop.outcome = "returned"

(* C12: the stop flag set by SIGINT is read by the while test only.  Setting
   it during a tick leaves the tick in progress, which then runs to its end
   (success, error or interrupt); once the flag is set no tick starts; at
   most one tick is in flight at any time; and once the flag is set the
   call comes to an end. *)
C12_Cancellation ==
    /\ [][(loop.pc = "tick" /\ ~loop.stop_event /\ loop'.stop_event)
            => (loop'.pc = "tick" /\ loop'.in_flight = loop.in_flight)]_vars
    /\ [][(loop.pc = "tick" /\ loop.stop_event)
            => (loop'.pc \in {"after", "except", "interrupt"}
                /\ loop'.in_flight = 0)]_vars
    /\ [][(loop.stop_event /\ loop.pc # "tick")
            => (loop'.pc # "tick" /\ (loop'.pc # "off" => loop'.ticks = loop.ticks))]_vars
    /\ [](loop.in_flight <= 1)
    /\ [](loop.in_flight = 1 <=> loop.pc = "tick")
    /\ (loop.stop_event ~> LoopOver)

(* C12 witness: the flag was set while the second tick of a periodic loop
   was in progress. *)
C12_Witness ==
    /\ loop.pc = "tick"
    /\ loop.stop_event
    /\ loop.in_flight = 1
    /\ loop.interval_seconds > 0
    /\ loop.ticks = 2

(***************************************************************************)
(* Purity of the renderers.                                                *)
(***************************************************************************)
(* what a new MapRenderer returns and holds for the arguments of the call,
   when set(colors) is iterated in the given order *)
FreshRender(set_order) == render_map([call EXCEPT !.set_order = set_order])

(* C13: the outcome of a render_map call is fixed by its arguments: it is
   what a new renderer returns for them, whatever the instance held from an
   earlier call and whatever the order in which set(colors) is iterated. *)
C13_RendererDeterminism ==
    MapCalled =>
        \A set_order \in SetOrders(call.colors) :
            /\ FreshRender(set_order).ret = ret
            /\ FreshRender(set_order).locals = locals

(* The part of C13 that holds: a second call on the same instance gives
   what a new renderer gives, for the same iteration order of set(colors). *)
C13_SecondCallStartsBlank ==
    (MapCalled /\ call.again) =>
        /\ FreshRender(call.set_order).ret = ret
        /\ FreshRender(call.set_order).locals = locals

(* a second call has drawn a chart over the grids of a first one *)
C13_SecondCallReached ==
    /\ MapChart
    /\ call.again
    /\ call.map_type = "density"
    /\ Len(call.lats) = 2

(***************************************************************************)
(* The density-adaptive viewport.                                          *)
(***************************************************************************)
DensityViewport ==
    /\ MapCalled
    /\ locals.stage # "empty"
    /\ locals.viewport.path = "density"

(* |lat - center_lat| <= lat_range / 2 and |lon - center_lon| <= lon_range / 2 *)
InViewport(i) ==
    /\ QLe(locals.viewport.min_lat, QInt(call.lats[i]))
    /\ QLe(QInt(call.lats[i]), locals.viewport.max_lat)
    /\ QLe(locals.viewport.min_lon, QInt(call.lons[i]))
    /\ QLe(QInt(call.lons[i]), locals.viewport.max_lon)

PointsInViewport == {i \in 1..Len(call.lats) : InViewport(i)}

(* C14: for N >= 3 points the viewport of _find_density_center (coverage
   0.9) contains at least floor(0.9 * N) of the points. *)
C14_ViewportCoverage ==
    DensityViewport =>
        Cardinality(PointsInViewport) >= TargetCount(Len(call.lats), <<9, 10>>)

(* the centre of the viewport *)
ViewCenterLat ==
    QDiv(QAdd(locals.viewport.min_lat, locals.viewport.max_lat), QInt(2))
ViewCenterLon ==
    QDiv(QAdd(locals.viewport.min_lon, locals.viewport.max_lon), QInt(2))

Indices == 1..Len(call.lats)

(* the sets of k points nearest the centroid of all the points *)
NearestSets(k) ==
    {S \in SUBSET Indices :
        /\ Cardinality(S) = k
        /\ \A i \in S, j \in Indices \ S :
             ~DistLess(DistKey(call.lats, call.lons, j),
                       DistKey(call.lats, call.lons, i))}

CentroidOf(vs, S) ==
    Q(SumSeq([i \in 1..Len(vs) |-> IF i \in S THEN vs[i] ELSE 0]), Cardinality(S))

(* the bucket of v on an axis from lo to hi cut in grid_size buckets *)
Bucket(v, lo, hi) ==
    IF hi > lo THEN Min((grid_size * (v - lo)) \div (hi - lo), grid_size - 1) ELSE 0

BucketOf(i) ==
    <<Bucket(call.lats[i], SeqMin(call.lats), SeqMax(call.lats)),
      Bucket(call.lons[i], SeqMin(call.lons), SeqMax(call.lons))>>

BucketCount(i) == Cardinality({j \in Indices : BucketOf(j) = BucketOf(i)})

(* the points of the most populated buckets *)
FullestPoints == {i \in Indices : \A j \in Indices : BucketCount(j) <= BucketCount(i)}

(* the midpoint of the bucket of v; on an axis without extent the buckets
   have no width and the midpoint is the common value, plus flat_offset *)
BucketMidpoint(v, lo, hi, flat_offset) ==
    IF hi > lo
    THEN QAdd(QInt(lo), QMul(QAdd(QInt(Bucket(v, lo, hi)), <<1, 2>>),
                             Q(hi - lo, grid_size)))
    ELSE QAdd(QInt(lo), flat_offset)

Weighted(core_centroid, density_peak) ==
    QAdd(QMul(<<9, 10>>, core_centroid), QMul(<<1, 10>>, density_peak))

(* the centre is 0.9 * core centroid + 0.1 * bucket midpoint for some set of
   floor(0.9 * N) nearest points and some most populated bucket *)
CentreIsBlend(flat_offset) ==
    \E S \in NearestSets(TargetCount(Len(call.lats), <<9, 10>>)), p \in FullestPoints :
        /\ ViewCenterLat =
             Weighted(CentroidOf(call.lats, S),
                      BucketMidpoint(call.lats[p], SeqMin(call.lats), SeqMax(call.lats),
                                     flat_offset))
        /\ ViewCenterLon =
             Weighted(CentroidOf(call.lons, S),
                      BucketMidpoint(call.lons[p], SeqMin(call.lons), SeqMax(call.lons),
                                     flat_offset))

(* squared distances in the plane of latitude and longitude *)
QSq(a) == QMul(a, a)
Dist2(lat_a, lon_a, lat_b, lon_b) == QAdd(QSq(QSub(lat_a, lat_b)), QSq(QSub(lon_a, lon_b)))
PointDist2(i, j) ==
    (call.lats[i] - call.lats[j]) * (call.lats[i] - call.lats[j])
        + (call.lons[i] - call.lons[j]) * (call.lons[i] - call.lons[j])

(* i and j are a tight pair and k a distant outlier: the pair is less than
   half as far apart as either of its points is from k *)
PairAndOutlier(i, j, k) ==
    /\ {i, j, k} = 1..3
    /\ i < j
    /\ 4 * PointDist2(i, j) < PointDist2(i, k)
    /\ 4 * PointDist2(i, j) < PointDist2(j, k)

(* the squared distance of a place from the middle of the pair *)
FromPair(i, j, lat, lon) ==
    Dist2(lat, lon, Q(call.lats[i] + call.lats[j], 2), Q(call.lons[i] + call.lons[j], 2))

(* the centre lies nearer the pair than the middle of the bounding box and
   than the centroid of the three points *)
CentreNearPair ==
    \A i, j, k \in Indices :
        (Len(call.lats) = 3 /\ PairAndOutlier(i, j, k)) =>
            /\ QLt(FromPair(i, j, ViewCenterLat, ViewCenterLon),
                   FromPair(i, j, Q(SeqMin(call.lats) + SeqMax(call.lats), 2),
                            Q(SeqMin(call.lons) + SeqMax(call.lons), 2)))
            /\ QLt(FromPair(i, j, ViewCenterLat, ViewCenterLon),
                   FromPair(i, j, Mean(call.lats), Mean(call.lons)))

(* C15 as stated: for N >= 3 the centre of the viewport is 0.9 * (centroid of
   the floor(0.9 * N) points nearest the centroid) + 0.1 * (midpoint of the
   most populated bucket of the 40 x 40 grid over the bounding box), and for
   a tight pair with a distant outlier it lies nearer the pair than the
   middle of the bounding box and than the centroid. *)
C15_DensityCentering ==
    DensityViewport => (CentreIsBlend(<<0, 1>>) /\ CentreNearPair)

(* C15, corrected: the same, where on an axis on which all the points have
   the same coordinate the bucket is one degree wide and starts at that
   coordinate, so that the density peak lies half a degree above it. *)
C15_DensityCenteringFlatAxis ==
    DensityViewport => (CentreIsBlend(<<1, 2>>) /\ CentreNearPair)

(* C15 witness: a pair and an outlier, all at different places on both
   axes, with the centre next to the pair. *)
C15_Witness ==
    /\ DensityViewport
    /\ \E i, j, k \in Indices : Len(call.lats) = 3 /\ PairAndOutlier(i, j, k)
    /\ SeqMin(call.lats) < SeqMax(call.lats)
    /\ SeqMin(call.lons) < SeqMax(call.lons)
    /\ Cardinality(FullestPoints) = 3

(***************************************************************************)
(* Projection.                                                             *)
(***************************************************************************)
(* the call with point i alone, without colors or values *)
CallOnly(i) ==
    [call EXCEPT !.lats = <<call.lats[i]>>, !.lons = <<call.lons[i]>>,
                 !.values = <<>>, !.colors = <<>>, !.set_order = <<>>]

BlankCanvas == ClearCanvases(SelfWidth(call.width), SelfHeight(call.height)).canvas

(* row = (height - 1) - floor((lat - minLat) * latScale),
   col = floor((lon - minLon) * lonScale) *)
FloorRow(i) ==
    SelfHeight(call.height) - 1 - QFloor(ScaledLat(PlotArgs(call, locals.viewport), i))
FloorCol(i) == QFloor(ScaledLon(PlotArgs(call, locals.viewport), i))

(* the same with int(), which rounds toward zero *)
TruncRow(i) ==
    SelfHeight(call.height) - 1 - QTrunc(ScaledLat(PlotArgs(call, locals.viewport), i))
TruncCol(i) == QTrunc(ScaledLon(PlotArgs(call, locals.viewport), i))

(* point i lies south or west of the origin of the viewport *)
SouthOrWest(i) ==
    \/ QLt(QInt(call.lats[i]), locals.viewport.min_lat)
    \/ QLt(QInt(call.lons[i]), locals.viewport.min_lon)

(* plotted alone in the viewport of the call, a point marks the cell
   (row, col) when that cell is on the canvas and marks nothing otherwise *)
DrawnAt(i, row, col) ==
    IF InCanvas(PlotArgs(call, locals.viewport), row, col)
    THEN Plotted(CallOnly(i)).canvas[<<row, col>>] # Blank
    ELSE Plotted(CallOnly(i)).canvas = BlankCanvas

(* C16: every point is drawn at row = (height - 1) - floor((lat - minLat) *
   latScale), col = floor((lon - minLon) * lonScale); a point south or west
   of the origin of the viewport has a negative scaled coordinate and is
   not drawn at all. *)
C16_Projection ==
    MapChart =>
        \A i \in Indices :
            /\ DrawnAt(i, FloorRow(i), FloorCol(i))
            /\ SouthOrWest(i) => Plotted(CallOnly(i)).canvas = BlankCanvas

(* What the code does: the cell is computed with int(), so a point less
   than one cell south or west of the origin is drawn in the bottom row or
   in column 0. *)
C16_ProjectionTruncates ==
    MapChart => \A i \in Indices : DrawnAt(i, TruncRow(i), TruncCol(i))

(* a point south of the viewport is drawn in the bottom row *)
C16_DrawnOutside ==
    /\ MapChart
    /\ call.map_type = "points"
    /\ \E i \in Indices :
         /\ SouthOrWest(i)
         /\ Plotted(CallOnly(i)).canvas # BlankCanvas


(***************************************************************************)
(* C17: matrix heatmap truncation.                                         *)
(***************************************************************************)
MatrixChart == MatrixCalled /\ locals.stage = "chart"

AxisValues(axis) == IF axis = "x" THEN call.x_values ELSE call.y_values
AxisKeys(axis) == {AxisValues(axis)[i] : i \in 1..Len(AxisValues(axis))}
KeptKeys(axis) == IF axis = "x" THEN locals.unique_x ELSE locals.unique_y
KeptSet(axis) == {KeptKeys(axis)[i] : i \in 1..Len(KeptKeys(axis))}

(* the total aggregated value of a key: the sum of the rows that carry it *)
KeyTotal(axis, k) ==
    SumSeq([i \in 1..Len(AxisValues(axis)) |->
               IF AxisValues(axis)[i] = k THEN RowValue(i) ELSE 0])

NoDuplicates(keys) ==
    \A i, j \in 1..Len(keys) : i # j => keys[i] # keys[j]

(* ordered by (isNull, string value): None last, the others ascending *)
NullLastOrder(keys) ==
    \A i, j \in 1..Len(keys) :
        i < j => /\ keys[i] # NoneKey
                 /\ (keys[j] # NoneKey => keys[i] < keys[j])

AxisTruncated(axis) ==
    /\ Len(KeptKeys(axis)) = 20
    /\ NoDuplicates(KeptKeys(axis))
    /\ KeptSet(axis) \subseteq AxisKeys(axis)
    /\ \A k \in KeptSet(axis) : \A d \in AxisKeys(axis) \ KeptSet(axis) :
           KeyTotal(axis, k) >= KeyTotal(axis, d)

AxisWhole(axis) ==
    /\ KeptSet(axis) = AxisKeys(axis)
    /\ NoDuplicates(KeptKeys(axis))
    /\ NullLastOrder(KeptKeys(axis))

(* C17: an axis of more than 20 distinct keys keeps exactly 20 of them, and
   no dropped key has a larger total than a kept one; an axis of at most 20
   keys is kept whole, in (isNull, string) order, None last. *)
C17_MatrixTruncation ==
    MatrixChart =>
        \A axis \in {"x", "y"} :
            IF Cardinality(AxisKeys(axis)) > 20
            THEN AxisTruncated(axis)
            ELSE AxisWhole(axis)

(* 22 keys, None among them: two keys are dropped, both lighter than a kept
   key that sorts after them *)
C17_Witness ==
    /\ MatrixChart
    /\ \E axis \in {"x", "y"} :
        /\ Cardinality(AxisKeys(axis)) = 22
        /\ NoneKey \in AxisKeys(axis)
        /\ Len(KeptKeys(axis)) = 20
        /\ \E d \in AxisKeys(axis) \ KeptSet(axis) : \E k \in KeptSet(axis) :
               /\ KeyTotal(axis, d) < KeyTotal(axis, k)
               /\ KeyBefore(d, k)


(***************************************************************************)
(* C18: colour labels in points and blocks mode.                           *)
(***************************************************************************)
ColoredCall ==
    /\ call.fn = "render_map"
    /\ call.map_type \in {"points", "blocks"}
    /\ call.colors # <<>>
    /\ locals.stage = "chart"

IsNamed(label) == Lower(label) \in DOMAIN color_map

(* the distinct labels that are not named colours, in the order in which
   the input first shows them *)
RECURSIVE FirstSeenFrom(_, _, _)
FirstSeenFrom(colors, i, seen) ==
    IF i > Len(colors) THEN seen
    ELSE IF IsNamed(colors[i]) \/ colors[i] \in SeqRange(seen)
         THEN FirstSeenFrom(colors, i + 1, seen)
         ELSE FirstSeenFrom(colors, i + 1, Append(seen, colors[i]))

FirstSeen(colors) == FirstSeenFrom(colors, 1, <<>>)

FirstSeenColor(colors, label) ==
    IF IsNamed(label) THEN color_map[Lower(label)]
    ELSE LET seen == FirstSeen(colors)
             k == CHOOSE j \in 1..Len(seen) : seen[j] = label
         IN  AutoPalette[((k - 1) % 8) + 1]

(* C18: a named label gets its named colour, the k-th first-seen other
   label gets palette[k mod 8], so the colours of the points depend on the
   input sequence alone. *)
C18_ColorResolution ==
    ColoredCall =>
        \A i \in 1..Len(call.colors) :
            ColorCode(call, i) = FirstSeenColor(call.colors, call.colors[i])

(* what holds of the code: named labels get their named colour, and the
   others get distinct palette colours in the order of iteration over
   set(colors) *)
C18_NamedColorsResolved ==
    ColoredCall =>
        \A i \in 1..Len(call.colors) :
            /\ IsNamed(call.colors[i]) =>
                   ColorCode(call, i) = color_map[Lower(call.colors[i])]
            /\ ~IsNamed(call.colors[i]) =>
                   \E k \in 1..Len(call.set_order) :
                       ColorCode(call, i) = AutoPalette[((k - 1) % 8) + 1]

(* two labels that are not named colours, met by the loop in the order
   opposite to the input's *)
C18_SetOrderDiffers ==
    /\ ColoredCall
    /\ Len(FirstSeen(call.colors)) = 2
    /\ AutoLabels(call.set_order) # FirstSeen(call.colors)


(***************************************************************************)
(* C19: cluster glyphs.                                                    *)
(***************************************************************************)
ClustersChart == MapChart /\ call.map_type = "clusters"

ClusterPoints == CanvasPointsFrom(PlotArgs(call, locals.viewport), 1)
Clusters == identify_clusters(PlotArgs(call, locals.viewport))
ClusterSize(k) == Len(Clusters[k])

(* the cell of the centroid of cluster k: int() of the mean row and column *)
CentroidRow(k) ==
    QTrunc(Q(SumSeq([j \in 1..ClusterSize(k) |-> ClusterPoints[Clusters[k][j]][1]]),
             ClusterSize(k)))
CentroidCol(k) ==
    QTrunc(Q(SumSeq([j \in 1..ClusterSize(k) |-> ClusterPoints[Clusters[k][j]][2]]),
             ClusterSize(k)))
CentroidInBounds(k) ==
    InCanvas(PlotArgs(call, locals.viewport), CentroidRow(k), CentroidCol(k))

(* bullet < 5, fisheye 5-10, bullseye 10-20, circled plus > 20; a cluster
   of 10 is in two of the ranges and may take either glyph *)
GlyphsFor(size) ==
    IF size < 5 THEN {8226}
    ELSE IF size < 10 THEN {9673}
    ELSE IF size = 10 THEN {9673, 9678}
    ELSE IF size <= 20 THEN {9678}
    ELSE {8853}

IsDigit(char) == 48 <= char /\ char <= 57

(* the character drawn at (row, col); a cell off the canvas has none *)
CharAt(row, col) ==
    IF InCanvas(PlotArgs(call, locals.viewport), row, col)
    THEN locals.grids.canvas[<<row, col>>].char
    ELSE 0

(* C19: a cluster whose centroid is in bounds is drawn with the glyph of
   its member count (bullet < 5, fisheye 5-10, bullseye 10-20, circled plus
   only above 20), and a cluster of at least 10 members has its size
   written next to the glyph. *)
C19_ClusterGlyphs ==
    ClustersChart =>
        \A k \in 1..Len(Clusters) :
            CentroidInBounds(k) =>
                /\ CharAt(CentroidRow(k), CentroidCol(k)) \in GlyphsFor(ClusterSize(k))
                /\ ClusterSize(k) >= 10 =>
                       IsDigit(CharAt(CentroidRow(k), CentroidCol(k) + 1))

(* no other cluster is drawn in the row of cluster k *)
AloneInRow(k) ==
    \A j \in 1..Len(Clusters) :
        (j # k /\ CentroidInBounds(j)) => CentroidRow(j) # CentroidRow(k)

(* What the code does: the glyph changes at 5, 10 and 20 members, and the
   size is written only when two columns are free right of the glyph. *)
C19_GlyphsOfTheCode ==
    ClustersChart =>
        \A k \in 1..Len(Clusters) :
            (CentroidInBounds(k) /\ AloneInRow(k)) =>
                /\ CharAt(CentroidRow(k), CentroidCol(k)) =
                       (IF ClusterSize(k) < 5 THEN 8226
                        ELSE IF ClusterSize(k) < 10 THEN 9673
                        ELSE IF ClusterSize(k) < 20 THEN 9678
                        ELSE 8853)
                /\ IsDigit(CharAt(CentroidRow(k), CentroidCol(k) + 1)) <=>
                       /\ ClusterSize(k) >= 10
                       /\ CentroidCol(k) + 2 < SelfWidth(call.width)

(* a cluster of exactly 20 members drawn as a circled plus *)
C19_TwentyIsCircledPlus ==
    /\ ClustersChart
    /\ \E k \in 1..Len(Clusters) :
        /\ ClusterSize(k) = 20
        /\ CentroidInBounds(k)
        /\ CharAt(CentroidRow(k), CentroidCol(k)) = 8853

(* a cluster of at least 10 members without a label *)
C19_LargeWithoutLabel ==
    /\ ClustersChart
    /\ \E k \in 1..Len(Clusters) :
        /\ ClusterSize(k) >= 10
        /\ CentroidInBounds(k)
        /\ ~IsDigit(CharAt(CentroidRow(k), CentroidCol(k) + 1))


(***************************************************************************)
(* C20: the green -> yellow -> red gradient.                                *)
(***************************************************************************)
GradientCalled == call.fn = "gradient"

(* the colour of the same place further up the gradient *)
LaterRgb(step) == GradientRgb(call.source, step)

(* C20: on normalized in [0.5, 1] red never falls and green never rises as
   normalized grows, and on [0, 1] the three channels stay within 0..255. *)
C20_GradientMonotone ==
    GradientCalled =>
        /\ \A c \in 1..3 : 0 <= locals.rgb[c] /\ locals.rgb[c] <= 255
        /\ QLe(<<1, 2>>, call.normalized) =>
               \A step \in call.step..GradientSteps :
                   /\ LaterRgb(step)[1] >= locals.rgb[1]
                   /\ LaterRgb(step)[2] <= locals.rgb[2]

(* past yellow, between two shades: green is falling, red is full *)
C20_Witness ==
    /\ GradientCalled
    /\ QLt(<<1, 2>>, call.normalized)
    /\ locals.rgb[1] = 255
    /\ 0 < locals.rgb[2] /\ locals.rgb[2] < 255
    /\ \E step \in (call.step + 1)..GradientSteps :
           LaterRgb(step)[2] < locals.rgb[2]


(***************************************************************************)
(* C21: parse_dimension.                                                   *)
(***************************************************************************)
DimensionCalled == call.fn = "parse_dimension"

DimText == Strip(call.value.text)
IsPercent == DimText # <<>> /\ DimText[Len(DimText)] = "%"
PercentText == SubSeq(DimText, 1, Len(DimText) - 1)

Warned == locals.result.warning # ""
NoneWithWarning == locals.result.none /\ Warned
Yields(n) == ~locals.result.none /\ locals.result.value = n

(* C21: the result is None or a strictly positive integer; a text that is
   no number, a size <= 0 and a percentage outside (0, 100] give None with
   a warning, "N" gives N and "P%" the integer part of terminal_size * P /
   100. *)
C21_ParseDimension ==
    (DimensionCalled /\ call.value.given /\ call.value.text # <<>>) =>
        /\ locals.result.none \/ locals.result.value > 0
        /\ IF IsPercent
           THEN IF ~Number(PercentText).ok THEN NoneWithWarning
                ELSE IF Number(PercentText).value <= 0
                        \/ Number(PercentText).value > 100
                THEN NoneWithWarning
                ELSE Yields((call.terminal_size * Number(PercentText).value) \div 100)
           ELSE IF ~Number(DimText).ok THEN NoneWithWarning
                ELSE IF Number(DimText).value <= 0 THEN NoneWithWarning
                ELSE Yields(Number(DimText).value)

(* What holds of the code: everything but the sign of the result, which is
   0 for a percentage of less than one column or line. *)
C21_DimensionCases ==
    (DimensionCalled /\ call.value.given /\ call.value.text # <<>>) =>
        /\ locals.result.none \/ locals.result.value >= 0
        /\ (~locals.result.none /\ locals.result.value = 0) => IsPercent
        /\ IF IsPercent
           THEN IF ~Number(PercentText).ok THEN NoneWithWarning
                ELSE IF Number(PercentText).value <= 0
                        \/ Number(PercentText).value > 100
                THEN NoneWithWarning
                ELSE Yields((call.terminal_size * Number(PercentText).value) \div 100)
           ELSE IF ~Number(DimText).ok THEN NoneWithWarning
                ELSE IF Number(DimText).value <= 0 THEN NoneWithWarning
                ELSE Yields(Number(DimText).value)

(* a percentage within (0, 100] that gives 0 *)
C21_ZeroDimension ==
    /\ DimensionCalled
    /\ IsPercent
    /\ Number(PercentText).ok
    /\ Number(PercentText).value > 0
    /\ Yields(0)


(***************************************************************************)
(* C22: clustering is a partition.                                         *)
(***************************************************************************)
ClusterMembers(k) == {Clusters[k][j] : j \in 1..ClusterSize(k)}
ClusterSeed(k) == Clusters[k][1]
PointIndices == 1..Len(ClusterPoints)

(* the squared distance of two projected points is at most 2.0 squared *)
WithinThreshold(i, j) ==
    (ClusterPoints[i][1] - ClusterPoints[j][1]) * (ClusterPoints[i][1] - ClusterPoints[j][1])
    + (ClusterPoints[i][2] - ClusterPoints[j][2]) * (ClusterPoints[i][2] - ClusterPoints[j][2])
        <= 4

Seeds == {ClusterSeed(k) : k \in 1..Len(Clusters)}

(* C22: every in-bounds point is in exactly one cluster, no cluster is
   empty, every member is within 2.0 of the seed of its cluster, and a
   point belongs to the earliest seed, in input order, within 2.0 of it. *)
C22_ClusterPartition ==
    ClustersChart =>
        /\ \A i \in PointIndices :
               Cardinality({k \in 1..Len(Clusters) : i \in ClusterMembers(k)}) = 1
        /\ \A k \in 1..Len(Clusters) :
               /\ ClusterSize(k) >= 1
               /\ ClusterSize(k) = Cardinality(ClusterMembers(k))
               /\ ClusterMembers(k) \subseteq PointIndices
               /\ \A i \in ClusterMembers(k) :
                      /\ WithinThreshold(ClusterSeed(k), i)
                      /\ \A s \in Seeds :
                             WithinThreshold(s, i) => ClusterSeed(k) <= s

(* three points in two clusters: the second point is within 2.0 of both
   seeds and goes to the first *)
C22_Witness ==
    /\ ClustersChart
    /\ Len(ClusterPoints) = 3
    /\ Len(Clusters) = 2
    /\ \E i \in PointIndices : \E k1, k2 \in 1..Len(Clusters) :
           /\ k1 < k2
           /\ i \in ClusterMembers(k1)
           /\ i # ClusterSeed(k1)
           /\ WithinThreshold(ClusterSeed(k2), i)


(***************************************************************************)
(* C23: Braille accumulation.                                              *)
(***************************************************************************)
(* Points close enough to share a canvas cell, next to a far one: the two
   Braille modes of render_map on up to MaxPts of them. *)
NearPlaces == {<<0, 0>>, <<1, 1>>, <<1, 2>>, <<8, 8>>}

RenderBrailleMap ==
    /\ Idle
    /\ \E pts \in SeqsUpTo(NearPlaces, MaxPts), aspect_ratio \in AspectRatios,
          size \in CanvasSizes, map_type \in {"points", "braille_heatmap"} :
         \E values \in (IF map_type = "braille_heatmap"
                        THEN ValueLists(Len(pts)) ELSE {<<>>}) :
           \E c \in {[fn |-> "render_map",
                      lats |-> Force([i \in 1..Len(pts) |-> pts[i][1]]),
                      lons |-> Force([i \in 1..Len(pts) |-> pts[i][2]]),
                      values |-> values, colors |-> <<>>, set_order |-> <<>>,
                      map_type |-> map_type,
                      width |-> size.width, height |-> size.height,
                      aspect_ratio |-> aspect_ratio, center_on_density |-> TRUE,
                      again |-> FALSE]} :
             \E r \in {RenderWith(c, IF pts = <<>> THEN <<>> ELSE ViewportOf(c))} :
                 /\ call' = c
                 /\ ret' = r.ret
                 /\ locals' = r.locals
                 /\ UNCHANGED loop

NextBraille == RenderBrailleMap \/ ReturnToCaller
SpecBraille == Init /\ [][NextBraille]_vars

BrailleChart == MapChart /\ call.map_type \in {"points", "braille_heatmap"}

MapArgs == PlotArgs(call, locals.viewport)

(* the dot bit of point i: BRAILLE_DOTS[sub_y][sub_x] *)
DotBit(i) == BRAILLE_DOTS[SubY(MapArgs, i) + 1][SubX(MapArgs, i) + 1]

(* the in-bounds points that project to cell p *)
PointsAt(p) ==
    {i \in Indices : OnCanvas(MapArgs, i)
                     /\ CanvasY(MapArgs, i) = p[1] /\ CanvasX(MapArgs, i) = p[2]}

(* the bits of a mask, and the mask of a set of bits *)
BitsOf(mask) == {b \in {1, 2, 4, 8, 16, 32, 64, 128} : (mask \div b) % 2 = 1}
RECURSIVE MaskOf(_)
MaskOf(bits) ==
    IF bits = {} THEN 0
    ELSE LET b == CHOOSE b \in bits : TRUE IN b + MaskOf(bits \ {b})

(* the call with its first k points only, and with its points reordered *)
CallPrefix(k) ==
    [call EXCEPT !.lats = SubSeq(@, 1, k), !.lons = SubSeq(@, 1, k),
                 !.values = IF @ = <<>> THEN @ ELSE SubSeq(@, 1, k),
                 !.colors = IF @ = <<>> THEN @ ELSE SubSeq(@, 1, k)]
Reorder(seq, perm) == [i \in 1..Len(seq) |-> seq[perm[i]]]
CallReordered(perm) ==
    [call EXCEPT !.lats = Reorder(@, perm), !.lons = Reorder(@, perm),
                 !.values = IF @ = <<>> THEN @ ELSE Reorder(@, perm),
                 !.colors = IF @ = <<>> THEN @ ELSE Reorder(@, perm)]
Orders == {perm \in [Indices -> Indices] : \A i, j \in Indices : perm[i] = perm[j] => i = j}

(* C23: the mask of every cell is the OR of the dot bits of the in-bounds
   points of that cell, and the glyph of a cell with points is 0x2800 + mask;
   the mask after any first k points has no bit that the final mask lacks;
   plotting the points in another order gives the same masks. *)
C23_BrailleAccumulation ==
    BrailleChart =>
        /\ \A p \in DOMAIN locals.grids.braille_canvas :
               /\ locals.grids.braille_canvas[p] = MaskOf({DotBit(i) : i \in PointsAt(p)})
               /\ PointsAt(p) # {} =>
                      locals.grids.canvas[p].char = 10240 + locals.grids.braille_canvas[p]
               /\ \A k \in 0..Len(call.lats) :
                      BitsOf(Plotted(CallPrefix(k)).braille_canvas[p])
                          \subseteq BitsOf(locals.grids.braille_canvas[p])
        /\ \A perm \in Orders :
               Plotted(CallReordered(perm)).braille_canvas = locals.grids.braille_canvas

(* two points of one cell on different dots: the glyph shows both *)
C23_Witness ==
    /\ BrailleChart
    /\ \E p \in DOMAIN locals.grids.braille_canvas :
        /\ \E i, j \in PointsAt(p) : i < j /\ DotBit(i) # DotBit(j)
        /\ Cardinality(BitsOf(locals.grids.braille_canvas[p])) >= 2
        /\ locals.grids.canvas[p].char = 10240 + locals.grids.braille_canvas[p]


(***************************************************************************)
(* pie_chart.draw_pie_blocks and draw_pie_braille on the canvas of         *)
(* render_pie_chart.  The angle of a cell is kept in 24ths of a turn: 2k   *)
(* is k/12 of a turn exactly, 2k + 1 is strictly between k/12 and          *)
(* (k + 1)/12.  For rational dx, dy and sector bounds that are multiples   *)
(* of 1/12 of a turn every comparison of the code is exact in this form.   *)
(***************************************************************************)
FULL_BLOCK == 9608
TwoPi == 24
PieRadii == {<<11, 5>>, <<3, 1>>}

(* radius_x = int(radius * 2.0); width = radius_x * 2 + 5;
   height = int(radius_y * 1.5) + 6; cx = width // 2; cy = height // 1.9 *)
PieCanvas(radius) ==
    [radius_y |-> radius,
     width |-> QTrunc(QMul(radius, QInt(2))) * 2 + 5,
     height |-> QTrunc(QMul(radius, <<3, 2>>)) + 6,
     cx |-> (QTrunc(QMul(radius, QInt(2))) * 2 + 5) \div 2,
     cy |-> QFloor(Q((QTrunc(QMul(radius, <<3, 2>>)) + 6) * 10, 19))]

(* the angle of (ax, ay), ax >= 0, ay >= 0, not both 0: on the x axis,
   below 30 degrees, between 30 and 60, above 60, on the y axis *)
FirstQuadrant(ax, ay) ==
    IF ay[1] = 0 THEN 0
    ELSE IF ax[1] = 0 THEN 6
    ELSE IF QLt(QMul(QInt(3), QSq(ay)), QSq(ax)) THEN 1
    ELSE IF QLt(QSq(ay), QMul(QInt(3), QSq(ax))) THEN 3
    ELSE 5

(* math.atan2(dy, dx), in (-pi, pi], atan2(0, 0) = 0 *)
atan2(dy, dx) ==
    IF dx[1] = 0 /\ dy[1] = 0 THEN 0
    ELSE IF dy[1] >= 0
         THEN (IF dx[1] >= 0 THEN FirstQuadrant(QAbs(dx), QAbs(dy))
               ELSE 12 - FirstQuadrant(QAbs(dx), QAbs(dy)))
         ELSE (IF dx[1] >= 0 THEN -FirstQuadrant(QAbs(dx), QAbs(dy))
               ELSE FirstQuadrant(QAbs(dx), QAbs(dy)) - 12)

(* a sector bound, a rational number of turns, in 24ths of a turn *)
Turn24(q) == (q[1] * TwoPi) \div q[2]
Angles24(angles) ==
    [i \in 1..Len(angles) |-> <<Turn24(angles[i][1]), Turn24(angles[i][2])>>]
WholeTwelfths(angles) ==
    \A i \in 1..Len(angles) : \A k \in 1..2 : (angles[i][k][1] * 12) % angles[i][k][2] = 0

(* mutant: the test angle is not brought into the range of the sector *)
in_segment_unwrapped(angle, start_angle, end_angle, wrap) ==
    start_angle <= angle /\ angle <= end_angle

(* test_angle = angle, plus 2 pi if below start_angle; test_end = end_angle,
   plus wrap if below start_angle; start_angle <= test_angle <= test_end *)
in_segment(angle, start_angle, end_angle, wrap) ==
    /\ start_angle <= (IF angle < start_angle THEN angle + TwoPi ELSE angle)
    /\ (IF angle < start_angle THEN angle + TwoPi ELSE angle)
          <= (IF end_angle < start_angle THEN end_angle + wrap ELSE end_angle)

(* for i, (start_angle, end_angle) in enumerate(angles): ... break;
   0 when no sector takes the angle *)
SegmentOf(angle, angles, wrap) ==
    IF \E i \in 1..Len(angles) : in_segment(angle, angles[i][1], angles[i][2], wrap)
    THEN CHOOSE i \in 1..Len(angles) :
            /\ in_segment(angle, angles[i][1], angles[i][2], wrap)
            /\ \A j \in 1..(i - 1) : ~in_segment(angle, angles[j][1], angles[j][2], wrap)
    ELSE 0

(* dist = sqrt(dx * dx + dy * dy); dist <= radius *)
Within(dx, dy, radius) == QLe(QAdd(QSq(dx), QSq(dy)), QSq(radius))

(* dx = (x - cx) / stretch, dy = y - cy *)
CellDx(g, p, stretch) == QDiv(QInt(p[2] - g.cx), stretch)
CellDy(g, p) == QInt(p[1] - g.cy)

PieCell(char, sector) == [char |-> char, sector |-> sector]

(* the first pass of both functions: stretch is 2.0 for the blocks and 1.8
   for the Braille chart *)
FillPass(g, angles, stretch) ==
    [p \in CanvasCells(g.width, g.height) |->
        IF Within(CellDx(g, p, stretch), CellDy(g, p), g.radius_y)
        THEN LET i == SegmentOf(atan2(CellDy(g, p), CellDx(g, p, stretch)), angles, TwoPi)
             IN  IF i = 0 THEN PieCell(32, 0) ELSE PieCell(FULL_BLOCK, i)
        ELSE PieCell(32, 0)]

(* the sub-positions of the second pass: sub_x in range(7), sub_y in
   range(9), px = x + sub_x * 0.35, py = y + sub_y * 0.25 *)
SubPositions == (0..6) \X (0..8)
SubDx(g, p, sub) == QDiv(QSub(QAdd(QInt(p[2]), Q(7 * sub[1], 20)), QInt(g.cx)), QInt(2))
SubDy(g, p, sub) == QSub(QAdd(QInt(p[1]), Q(sub[2], 4)), QInt(g.cy))

(* the sector of a sub-position inside the circle; test_end += 2.6 * pi is
   31.2 24ths, and an angle in 24ths is <= end + 31.2 iff it is <= end + 31 *)
SubSegment(g, p, sub, angles) ==
    IF Within(SubDx(g, p, sub), SubDy(g, p, sub), g.radius_y)
    THEN SegmentOf(atan2(SubDy(g, p, sub), SubDx(g, p, sub)), angles, 31)
    ELSE 0

(* the dot of a sub-position: the left column for sub_x = 0, the right one
   for every other sub_x, nothing for sub_y >= 4 *)
SubDot(sub) ==
    IF sub[2] > 3 THEN 0
    ELSE IF sub[1] = 0 THEN <<1, 2, 4, 64>>[sub[2] + 1]
    ELSE <<8, 16, 32, 128>>[sub[2] + 1]

(* radius_y - 1.0 <= dist <= radius_y + 0.9 for dx = (x - cx) / 1.85 *)
NearEdge(g, p) ==
    /\ \/ QLt(g.radius_y, QInt(1))
       \/ QLe(QSq(QSub(g.radius_y, QInt(1))),
              QAdd(QSq(CellDx(g, p, <<37, 20>>)), QSq(CellDy(g, p))))
    /\ Within(CellDx(g, p, <<37, 20>>), CellDy(g, p), QAdd(g.radius_y, <<9, 10>>))

(* edge_color: the sector of the last sub-position, in loop order, that a
   sector took *)
EdgeSector(g, p, angles) ==
    LET hits == {sub \in SubPositions : SubSegment(g, p, sub, angles) # 0}
    IN  IF hits = {} THEN 0
        ELSE SubSegment(g, p,
                 CHOOSE sub \in hits :
                     \A other \in hits :
                         other[1] < sub[1] \/ (other[1] = sub[1] /\ other[2] <= sub[2]),
                 angles)

EdgePattern(g, p, angles) ==
    MaskOf({SubDot(sub) : sub \in {h \in SubPositions : SubSegment(g, p, h, angles) # 0}}
           \ {0})

(* the second pass of draw_pie_braille: a Braille glyph on the cells the
   first pass left blank near the edge *)
EdgePass(g, angles, filled) ==
    [p \in DOMAIN filled |->
        IF filled[p].char # 32 \/ ~NearEdge(g, p) THEN filled[p]
        ELSE IF EdgePattern(g, p, angles) > 0
             THEN PieCell(BRAILLE_BASE + EdgePattern(g, p, angles), EdgeSector(g, p, angles))
             ELSE filled[p]]

draw_pie_blocks(g, angles) == FillPass(g, angles, QInt(2))
draw_pie_braille(g, angles) == EdgePass(g, angles, FillPass(g, angles, <<9, 5>>))

(* render_pie_chart with auto_size off: the canvas after the first pass
   (filled) and as it is printed (canvas) *)
DrawPie ==
    /\ Idle
    /\ \E values \in SeqsUpTo(InputValues, MaxLen), radius \in PieRadii,
          use_braille \in BOOLEAN :
        \E r \in {render_pie_chart(values, "distinct")} :
          /\ r.locals.stage = "chart" => WholeTwelfths(r.locals.angles)
          /\ call' = [fn |-> "render_pie_chart", values |-> values,
                      scheme |-> "distinct", radius |-> radius,
                      use_braille |-> use_braille, auto_size |-> FALSE]
          /\ ret' = r.ret
          /\ \E g \in {PieCanvas(radius)} :
              \E filled \in {IF r.locals.stage # "chart" THEN <<>>
                             ELSE FillPass(g, Angles24(r.locals.angles),
                                           IF use_braille THEN <<9, 5>> ELSE QInt(2))} :
               locals' = IF r.locals.stage # "chart" THEN r.locals
                         ELSE [fn |-> "pie", stage |-> "chart",
                               values |-> r.locals.values, total |-> r.locals.total,
                               angles |-> r.locals.angles, colors |-> r.locals.colors,
                               geometry |-> g, filled |-> filled,
                               canvas |-> IF use_braille
                                          THEN draw_pie_braille(g, Angles24(r.locals.angles))
                                          ELSE draw_pie_blocks(g, Angles24(r.locals.angles))]
    /\ UNCHANGED loop

NextPie == DrawPie \/ ReturnToCaller
SpecPie == Init /\ [][NextPie]_vars


(***************************************************************************)
(* C24: the fill pass of the pie.                                          *)
(***************************************************************************)
PieDrawn == call.fn = "render_pie_chart" /\ locals.stage = "chart"

Stretch == IF call.use_braille THEN <<9, 5>> ELSE <<2, 1>>
InCircle(p) ==
    Within(CellDx(locals.geometry, p, Stretch), CellDy(locals.geometry, p), call.radius)
CellAngle(p) == atan2(CellDy(locals.geometry, p), CellDx(locals.geometry, p, Stretch))

(* the angle brought into [start, start + 2 pi) *)
IntoTurnFrom(angle, start) == start + ((angle - start) % TwoPi)
SectorContains(i, angle) ==
    IntoTurnFrom(angle, Turn24(locals.angles[i][1])) <= Turn24(locals.angles[i][2])

(* C24: after the first pass every cell within the radius is a solid block
   in the colour of a sector whose range contains the normalized angle of
   the cell, and every cell outside the radius is still blank. *)
C24_PieFillPass ==
    PieDrawn =>
        \A p \in DOMAIN locals.filled :
            IF InCircle(p)
            THEN /\ locals.filled[p].char = FULL_BLOCK
                 /\ locals.filled[p].sector \in 1..Len(locals.angles)
                 /\ SectorContains(locals.filled[p].sector, CellAngle(p))
            ELSE locals.filled[p] = PieCell(32, 0)

(* a cell within the radius whose angle lies below the start of its sector
   and is taken after the wraparound, next to a blank cell outside *)
C24_Witness ==
    /\ PieDrawn
    /\ Len(locals.angles) = 3
    /\ \E p \in DOMAIN locals.filled :
        /\ InCircle(p)
        /\ locals.filled[p].sector = 3
        /\ CellAngle(p) < Turn24(locals.angles[3][1])
    /\ \E p \in DOMAIN locals.filled : ~InCircle(p) /\ locals.filled[p].char = 32


(***************************************************************************)
(* C27: a sector of value 0 on the canvas.                                 *)
(***************************************************************************)
ZeroSectors == {i \in 1..Len(locals.values) : locals.values[i] = 0}
CellsOfSector(canvas, i) == {p \in DOMAIN canvas : canvas[p].sector = i}

(* C27: no cell of the canvas, after the fill pass or as printed, has the
   colour of a sector whose clamped value is 0. *)
C27_ZeroSectorColorsNoCell ==
    PieDrawn =>
        \A i \in ZeroSectors :
            /\ CellsOfSector(locals.filled, i) = {}
            /\ CellsOfSector(locals.canvas, i) = {}

(* the cells a sector of value 0 gets lie on the ray of its start angle;
   for a sector before the first positive one that is the column above
   the centre, which the fill pass colours *)
C27_ZeroSectorOnItsRay ==
    PieDrawn =>
        \A i \in ZeroSectors : \A p \in CellsOfSector(locals.filled, i) :
            (CellAngle(p) - Turn24(locals.angles[i][1])) % TwoPi = 0

C27_ZeroSectorDrawn ==
    /\ PieDrawn
    /\ locals.values[1] = 0
    /\ \E p \in CellsOfSector(locals.filled, 1) :
          p[2] = locals.geometry.cx /\ p[1] < locals.geometry.cy


(***************************************************************************)
(* C25: the colour scale of the matrix heatmap.                            *)
(***************************************************************************)
MatrixRendered == MatrixCalled /\ locals.stage \in {"zero", "chart"}

(* the pivot cells on display: the kept keys of a chart, all keys otherwise *)
DisplayedCells ==
    IF locals.stage = "chart" THEN KeptSet("y") \X KeptSet("x")
    ELSE AxisKeys("y") \X AxisKeys("x")
DisplayedValues ==
    {PivotGet(locals.pivot_data, k[1], k[2]) : k \in DisplayedCells}
NonzeroValues == {v \in DisplayedValues : v # 0}
PositiveValues == {v \in DisplayedValues : v > 0}

(* C25: min_val and max_val are the smallest and the largest nonzero value
   on display, negative sums included, and "No data to display" is returned
   only when the input is empty or every cell is zero. *)
C25_MatrixColorScale ==
    /\ (MatrixCalled /\ ret = Return(NoData)) =>
           (locals.stage = "empty" \/ NonzeroValues = {})
    /\ MatrixChart =>
           /\ locals.min_val = SetMin(NonzeroValues)
           /\ locals.max_val = SetMax(NonzeroValues)

(* what the code does: the scale runs over the positive cells, and the
   placeholder is returned exactly when the input is empty or no cell is
   positive *)
C25_PositiveScale ==
    /\ (MatrixCalled /\ locals.stage # "empty") =>
           (ret = Return(NoData) <=> PositiveValues = {})
    /\ MatrixChart =>
           /\ locals.min_val = SetMin(PositiveValues)
           /\ locals.max_val = SetMax(PositiveValues)

(* a chart with a negative cell beside a positive one, and a result whose
   only cell is negative *)
C25_NegativeLeftOut ==
    /\ MatrixChart
    /\ \E v \in NonzeroValues : v < locals.min_val
C25_NegativeOnly ==
    /\ MatrixCalled
    /\ locals.stage = "zero"
    /\ NonzeroValues # {}


(***************************************************************************)
(* C26: the sign of the waffle's cell counts.                              *)
(***************************************************************************)
(* the cells of the laid-out grid that belong to category i (cells holds
   i - 1 for it), and those of any category *)
CategoryCells(i) == {k \in 1..Len(locals.cells) : locals.cells[k] = i - 1}
AllCategoryCells == {k \in 1..Len(locals.cells) : locals.cells[k] # -1}

(* C26: no cell count is negative, the grid holds exactly total_cells
   category cells, and category i occupies cell_counts[i] of them. *)
C26_WaffleCountsNonNegative ==
    WaffleChart =>
        /\ \A i \in 1..Len(locals.cell_counts) :
              /\ locals.cell_counts[i] >= 0
              /\ Cardinality(CategoryCells(i)) = locals.cell_counts[i]
        /\ Cardinality(AllCategoryCells) = call.total_cells

(* what holds: only the last count can be negative, every category
   occupies max(0, count) cells, and the grid is never shorter than
   total_cells *)
C26_OnlyTheRemainder ==
    WaffleChart =>
        /\ \A i \in 1..(Len(locals.cell_counts) - 1) : locals.cell_counts[i] >= 0
        /\ \A i \in 1..Len(locals.cell_counts) :
              Cardinality(CategoryCells(i)) = Max(0, locals.cell_counts[i])
        /\ Len(locals.cells) >= call.total_cells

(* values 1, 1, 0 on three cells: counts 2, 2, -1 and four cells drawn *)
C26_NegativeRemainder ==
    /\ WaffleChart
    /\ call.values = <<1, 1, 0>>
    /\ call.total_cells = 3
    /\ locals.cell_counts = <<2, 2, -1>>
    /\ Len(locals.cells) = 4


(***************************************************************************)
(* C28: the orientation of the dots inside a Braille cell.                 *)
(***************************************************************************)
(* the row of a dot in the glyph, 0 at the top: dots 1 and 4 (bits 0x01,
   0x08), 2 and 5 (0x02, 0x10), 3 and 6 (0x04, 0x20), 7 and 8 (0x40, 0x80) *)
GlyphRow(bit) ==
    IF bit \in {1, 8} THEN 0
    ELSE IF bit \in {2, 16} THEN 1
    ELSE IF bit \in {4, 32} THEN 2
    ELSE 3

(* C28: of two in-bounds points of one cell the one with the greater
   latitude is never on a lower dot row than the other. *)
C28_BrailleOrientation ==
    BrailleChart =>
        \A p \in DOMAIN locals.grids.braille_canvas : \A i, j \in PointsAt(p) :
            call.lats[i] > call.lats[j] => GlyphRow(DotBit(i)) <= GlyphRow(DotBit(j))

(* what the code does: inside a cell the greater latitude is never on a
   higher dot row, while between cells it is never on a lower canvas row *)
C28_NorthIsDownInsideACell ==
    BrailleChart =>
        /\ \A p \in DOMAIN locals.grids.braille_canvas : \A i, j \in PointsAt(p) :
              call.lats[i] > call.lats[j] => GlyphRow(DotBit(i)) >= GlyphRow(DotBit(j))
        /\ \A i, j \in Indices :
              call.lats[i] > call.lats[j] => CanvasY(MapArgs, i) <= CanvasY(MapArgs, j)

(* two points of one cell, the northern one on a lower dot row *)
C28_NorthernDotBelow ==
    /\ BrailleChart
    /\ \E p \in DOMAIN locals.grids.braille_canvas : \E i, j \in PointsAt(p) :
          call.lats[i] > call.lats[j] /\ GlyphRow(DotBit(i)) > GlyphRow(DotBit(j))


(***************************************************************************)
(* C29: the JSON connection of refresh_loop.                               *)
(***************************************************************************)
(* C29: when refresh_loop is over, by whatever path, the connection it
   opened for the JSON data is closed. *)
C29_ConnectionReleased ==
    (LoopCalled /\ LoopOver) => loop.json_conn # "open"

(* what holds: every path through the try statement closes the connection,
   and the connection is left open exactly when loading the JSON data
   failed, which ends the call before the try statement is entered *)
C29_ReleasedByFinally ==
    /\ (LoopCalled /\ LoopOver /\ loop.outcome = "returned") =>
           loop.json_conn = (IF loop.json THEN "closed" ELSE "none")
    /\ (LoopCalled /\ LoopOver /\ loop.json_conn = "open") =>
           (loop.json /\ loop.outcome = "raised" /\ loop.ticks = 0)

(* the load failed: the call is over and the connection is still open *)
C29_LoadFailureLeaks ==
    /\ LoopOver
    /\ loop.json
    /\ loop.outcome = "raised"
    /\ loop.json_conn = "open"


(***************************************************************************)
(* C30: the range of the normalized density.                               *)
(***************************************************************************)
DensityChart == MapChart /\ call.map_type \in {"density", "heatmap"}

(* the grid before the smoothing, and after one pass *)
Accumulated ==
    AccumulateFrom(MapArgs, 1, ClearCanvases(MapArgs.width, MapArgs.height).density_map)
SmoothedOnce == SmoothOnce(MapArgs, Accumulated)
PreSmoothingMax == MaxDensity(MapArgs, Accumulated)

(* C30: neither smoothing pass raises the largest cell of the grid, every
   cell of the smoothed grid divided by the maximum before the smoothing
   lies in [0, 1], and every cell drawn is one of the five block
   characters, at the index of its normalized density. *)
C30_DensityInRange ==
    DensityChart =>
        /\ QLe(MaxDensity(MapArgs, SmoothedOnce), PreSmoothingMax)
        /\ QLe(MaxDensity(MapArgs, locals.grids.density_map),
               MaxDensity(MapArgs, SmoothedOnce))
        /\ \A p \in DOMAIN locals.grids.density_map :
              /\ QLe(<<0, 1>>, locals.grids.density_map[p])
              /\ QLe(locals.grids.density_map[p], PreSmoothingMax)
              /\ QLt(<<0, 1>>, locals.grids.density_map[p]) =>
                    /\ BlockIdx(NormalizedDensity(locals.grids.density_map[p],
                                                  PreSmoothingMax)) \in 0..4
                    /\ locals.grids.canvas[p].char =
                          BLOCK_CHARS[BlockIdx(NormalizedDensity(
                              locals.grids.density_map[p], PreSmoothingMax)) + 1]

(* weighted points: the smoothing has lowered the maximum and has spread
   density to a cell that held no point *)
C30_Witness ==
    /\ DensityChart
    /\ call.values # <<>>
    /\ QLt(MaxDensity(MapArgs, locals.grids.density_map), PreSmoothingMax)
    /\ \E p \in DOMAIN locals.grids.density_map :
          /\ Accumulated[p] = <<0, 1>>
          /\ QLt(<<0, 1>>, locals.grids.density_map[p])

====
